---- MODULE Spec2Model ----
(***************************************************************************)
(* Model of the bank-statement RAG system: the schema normalizer           *)
(* (components/upload.py), the query filter extractor, the embedding       *)
(* indexer and the hybrid search engine (components/search.py), and the    *)
(* session store written by app.py.                                        *)
(*                                                                         *)
(* Representation.  Text is a TLA+ string; amounts are counted in cents    *)
(* (45.00 is [nan |-> FALSE, v |-> 4500], NaN has nan = TRUE); a date is a record [y, m, d] and NaT is the   *)
(* record of zeros; a pandas NaN cell is the string "nan" (what            *)
(* astype(str) makes of it and what to_numeric / to_datetime coerce to     *)
(* NaN / NaT); a DataFrame is a sequence of row records.                   *)
(***************************************************************************)
EXTENDS Integers, Sequences, FiniteSets, TLC

VARIABLES
    df_in,              \* the raw file handed to _standardize_columns
    std_out,            \* what _standardize_columns returned or raised
    clean_out,          \* what _clean_and_standardize returned
    step,               \* how far the file of df_in has been taken
    uploaded_files,     \* the files handed to process_uploaded_files
    upload_out,         \* what process_uploaded_files returned
    today,              \* the calendar date datetime.now() gives
    clock_ticks,        \* how often the clock has moved
    last_call,          \* the latest call of _extract_query_filters
    prev_call,          \* the call before it
    session_df,         \* st.session_state.transactions_df
    rag_df,             \* BankStatementRAG.transactions_df
    client_up,          \* whether the vector store could be opened
    rag_collection,     \* BankStatementRAG.collection
    database,           \* the collection bank_transactions in the store
    index_out,          \* the latest call of index_transactions
    search_out,         \* the latest call of search
    column_mapping,     \* simple_app: st.session_state.column_mapping
    simple_df           \* simple_app: st.session_state.transactions_df

normalize_vars == <<df_in, std_out, clean_out, step>>

upload_vars == <<uploaded_files, upload_out>>

query_vars == <<today, clock_ticks, last_call, prev_call>>

session_vars == <<session_df, rag_df, client_up, rag_collection, database, index_out, search_out>>

simple_vars == <<column_mapping, simple_df>>

vars == <<normalize_vars, upload_vars, query_vars, session_vars, simple_vars>>

\* -------------------------------------------------------------------------
\* Text helpers (Python str methods used by the source)
\* -------------------------------------------------------------------------
Char(s, i) == SubSeq(s, i, i)

Rest(s) == SubSeq(s, 2, Len(s))

\* Python: p in s
Contains(s, p) ==
    \E i \in 1..(Len(s) - Len(p) + 1) : SubSeq(s, i, i + Len(p) - 1) = p

UpperLetters == "ABCDEFGHIJKLMNOPQRSTUVWXYZ"

LowerLetters == "abcdefghijklmnopqrstuvwxyz"

\* upper-case letter -> lower-case letter
LowerMap ==
    [c \in {Char(UpperLetters, i) : i \in 1..26} |->
        Char(LowerLetters, CHOOSE i \in 1..26 : Char(UpperLetters, i) = c)]

\* lower-case letter -> upper-case letter
UpperMap ==
    [c \in {Char(LowerLetters, i) : i \in 1..26} |->
        Char(UpperLetters, CHOOSE i \in 1..26 : Char(LowerLetters, i) = c)]

LowerChar(c) == IF c \in DOMAIN LowerMap THEN LowerMap[c] ELSE c

UpperChar(c) == IF c \in DOMAIN UpperMap THEN UpperMap[c] ELSE c

RECURSIVE Lower(_)
\* Python: s.lower()
Lower(s) == IF s = "" THEN "" ELSE LowerChar(Char(s, 1)) \o Lower(Rest(s))

RECURSIVE Upper(_)
\* Python: s.upper()
Upper(s) == IF s = "" THEN "" ELSE UpperChar(Char(s, 1)) \o Upper(Rest(s))

IsSpace(c) == c = " "

RECURSIVE LStrip(_)
LStrip(s) == IF s # "" /\ IsSpace(Char(s, 1)) THEN LStrip(Rest(s)) ELSE s

RECURSIVE RStrip(_)
RStrip(s) ==
    IF s # "" /\ IsSpace(Char(s, Len(s)))
    THEN RStrip(SubSeq(s, 1, Len(s) - 1))
    ELSE s

\* Python: s.strip()
Strip(s) == RStrip(LStrip(s))

Digits == "0123456789"

\* digit character -> its value
DigitMap == [c \in {Char(Digits, i) : i \in 1..10} |-> (CHOOSE i \in 1..10 : Char(Digits, i) = c) - 1]

IsDigit(c) == c \in DOMAIN DigitMap

DigitVal(c) == DigitMap[c]

AllDigits(s) == s # "" /\ \A i \in 1..Len(s) : IsDigit(Char(s, i))

RECURSIVE DigitsVal(_)
\* value of a string of decimal digits
DigitsVal(s) ==
    IF s = "" THEN 0
    ELSE 10 * DigitsVal(SubSeq(s, 1, Len(s) - 1)) + DigitVal(Char(s, Len(s)))

RECURSIVE RemoveChars(_, _)
\* Python: re.sub('[' + chars + ']', '', s)
RemoveChars(s, chars) ==
    IF s = "" THEN ""
    ELSE (IF Contains(chars, Char(s, 1)) THEN "" ELSE Char(s, 1))
             \o RemoveChars(Rest(s), chars)

\* -------------------------------------------------------------------------
\* Calendar (datetime / pandas Timestamp)
\* -------------------------------------------------------------------------
NaT == [y |-> 0, m |-> 0, d |-> 0]

IsLeap(y) == (y % 4 = 0 /\ y % 100 # 0) \/ y % 400 = 0

DaysInMonth(y, m) ==
    IF m = 2 THEN (IF IsLeap(y) THEN 29 ELSE 28)
    ELSE IF m \in {4, 6, 9, 11} THEN 30 ELSE 31

ValidDate(y, m, d) == y >= 1 /\ m \in 1..12 /\ d >= 1 /\ d <= DaysInMonth(y, m)

\* sort / comparison key of a date
DateKey(dt) == dt.y * 10000 + dt.m * 100 + dt.d

MonthShift == <<0, 3, 2, 5, 0, 3, 5, 1, 4, 6, 2, 4>>

\* Python weekday(): Monday = 0 ... Sunday = 6
Weekday(dt) ==
    LET yy == IF dt.m < 3 THEN dt.y - 1 ELSE dt.y
        sun0 == (yy + (yy \div 4) - (yy \div 100) + (yy \div 400)
                    + MonthShift[dt.m] + dt.d) % 7
    IN (sun0 + 6) % 7

DayNames ==
    <<"Monday", "Tuesday", "Wednesday", "Thursday", "Friday", "Saturday", "Sunday">>

Pad2(n) == Char(Digits, (n \div 10) + 1) \o Char(Digits, (n % 10) + 1)

Pad4(n) == Pad2(n \div 100) \o Pad2(n % 100)

\* str(date): YYYY-MM-DD
DateStr(dt) == Pad4(dt.y) \o "-" \o Pad2(dt.m) \o "-" \o Pad2(dt.d)

\* str(Period 'M'): YYYY-MM
MonthStr(dt) == Pad4(dt.y) \o "-" \o Pad2(dt.m)

\* pd.to_datetime(cell, errors='coerce', dayfirst=True) on the two layouts
\* the model feeds it: ISO YYYY-MM-DD, and slashed NN/NN/YYYY where the
\* first number is the day when that gives a valid date
to_datetime(s) ==
    IF Len(s) = 10 /\ Char(s, 5) = "-" /\ Char(s, 8) = "-"
       /\ AllDigits(SubSeq(s, 1, 4)) /\ AllDigits(SubSeq(s, 6, 7))
       /\ AllDigits(SubSeq(s, 9, 10))
    THEN LET y == DigitsVal(SubSeq(s, 1, 4))
             m == DigitsVal(SubSeq(s, 6, 7))
             d == DigitsVal(SubSeq(s, 9, 10))
         IN IF ValidDate(y, m, d) THEN [y |-> y, m |-> m, d |-> d] ELSE NaT
    ELSE IF Len(s) = 10 /\ Char(s, 3) = "/" /\ Char(s, 6) = "/"
            /\ AllDigits(SubSeq(s, 1, 2)) /\ AllDigits(SubSeq(s, 4, 5))
            /\ AllDigits(SubSeq(s, 7, 10))
    THEN LET a == DigitsVal(SubSeq(s, 1, 2))
             b == DigitsVal(SubSeq(s, 4, 5))
             y == DigitsVal(SubSeq(s, 7, 10))
         IN IF ValidDate(y, b, a) THEN [y |-> y, m |-> b, d |-> a]
            ELSE IF ValidDate(y, a, b) THEN [y |-> y, m |-> a, d |-> b]
            ELSE NaT
    ELSE NaT

\* -------------------------------------------------------------------------
\* Numbers (pd.to_numeric, amounts in cents)
\* -------------------------------------------------------------------------
NaN == [nan |-> TRUE, v |-> 0]

Num(v) == [nan |-> FALSE, v |-> v]

\* cents of an unsigned decimal literal with at most two decimals, or NaN
UnsignedCents(s) ==
    IF AllDigits(s) THEN Num(100 * DigitsVal(s))
    ELSE IF \E i \in 2..(Len(s) - 1) :
               /\ Char(s, i) = "."
               /\ AllDigits(SubSeq(s, 1, i - 1))
               /\ AllDigits(SubSeq(s, i + 1, Len(s)))
               /\ Len(s) - i <= 2
    THEN LET i == CHOOSE i \in 2..(Len(s) - 1) : Char(s, i) = "."
             frac == SubSeq(s, i + 1, Len(s))
         IN Num(100 * DigitsVal(SubSeq(s, 1, i - 1))
                  + (IF Len(frac) = 1 THEN 10 * DigitsVal(frac) ELSE DigitsVal(frac)))
    ELSE NaN

\* pd.to_numeric(cell, errors='coerce')
to_numeric(s) ==
    IF s = "" THEN NaN
    ELSE IF Char(s, 1) = "-"
    THEN LET u == UnsignedCents(Rest(s)) IN IF u.nan THEN NaN ELSE Num(0 - u.v)
    ELSE IF Char(s, 1) = "+" THEN UnsignedCents(Rest(s))
    ELSE UnsignedCents(s)

\* Series.fillna(0)
fillna0(n) == IF n.nan THEN Num(0) ELSE n

\* -------------------------------------------------------------------------
\* Schema normalizer (components/upload.py, class FileUploader)
\* -------------------------------------------------------------------------
\* A raw file is [name, size, decodes, columns, numeric_headers, rows]:
\* columns is the header row, numeric_headers the positions of the header
\* cells that hold a number instead of text (a spreadsheet allows it), and
\* rows[r][c] the text of the cell in row r under column c.

max_file_size == 50 * 1024 * 1024

None == ""

date_patterns == <<"date", "transaction date", "posted date", "trans date", "posting date">>

desc_patterns ==
    <<"description", "desc", "memo", "transaction", "details", "payee", "merchant">>

amount_patterns == <<"amount", "debit", "credit", "transaction amount", "value", "sum">>

\* the least element of a non-empty set of integers
Least(S) == CHOOSE i \in S : \A j \in S : i <= j

\* what .str.lower() leaves of a column name that is not text: NaN, a float
NotText == "NaN"

\* the outcome of _find_column when `pattern in col` raises TypeError
TypeErrorRaised == "TypeError"

\* df.columns.str.lower().str.strip()
lowered_columns(df) ==
    [c \in 1..Len(df.columns) |->
        IF c \in df.numeric_headers THEN NotText ELSE Strip(Lower(df.columns[c]))]

\* as find_column, columns in the outer loop and patterns in the inner
find_column_columns_first(columns, patterns) ==
    LET texts == {c \in 1..Len(columns) : columns[c] # NotText}
        hit == {c \in texts : \E p \in 1..Len(patterns) : Contains(columns[c], patterns[p])}
        nans == (1..Len(columns)) \ texts
    IN IF nans # {}
       THEN (IF hit # {} /\ Least(hit) < Least(nans) THEN columns[Least(hit)]
             ELSE TypeErrorRaised)
       ELSE IF hit = {} THEN None ELSE columns[Least(hit)]

\* FileUploader._find_column: patterns in the outer loop, columns in the
\* inner loop, first hit returned; `pattern in col` raises on a name that
\* is not text, which the first pattern meets unless it hits before it
find_column(columns, patterns) ==
    LET texts == {c \in 1..Len(columns) : columns[c] # NotText}
        hits(p) == {c \in texts : Contains(columns[c], patterns[p])}
        live == {p \in 1..Len(patterns) : hits(p) # {}}
        nans == (1..Len(columns)) \ texts
        early == {c \in hits(1) : c < Least(nans)}
    IN IF nans # {}
       THEN (IF early # {} THEN columns[Least(early)] ELSE TypeErrorRaised)
       ELSE IF live = {} THEN None ELSE columns[Least(hits(Least(live)))]

RECURSIVE Join(_, _)
\* Python: sep.join(parts)
Join(parts, sep) ==
    IF parts = <<>> THEN ""
    ELSE IF Len(parts) = 1 THEN parts[1]
    ELSE parts[1] \o sep \o Join(Tail(parts), sep)

\* the `missing` list built when a required column was not resolved
missing_columns(date_col, desc_col, amount_col) ==
    (IF date_col = None THEN <<"date">> ELSE <<>>)
    \o (IF desc_col = None THEN <<"description">> ELSE <<>>)
    \o (IF amount_col = None THEN <<"amount">> ELSE <<>>)

\* the condition of the debit/credit branch: columns named exactly so
has_debit_credit(columns) ==
    /\ \E c \in 1..Len(columns) : columns[c] = "debit"
    /\ \E c \in 1..Len(columns) : columns[c] = "credit"

\* "Remove invalid rows": dropna on date and amount, then the description test
valid_row(r) == r.date # NaT /\ ~r.amount.nan /\ Strip(r.description) # ""

\* FileUploader._standardize_columns: raised and msg give the exception,
\* cols the date, description and amount columns the three calls of
\* _find_column returned (empty when one of them raised), df the rows kept
standardize_columns(df, filename) ==
    LET columns == lowered_columns(df)
        date_col == find_column(columns, date_patterns)
        desc_col == find_column(columns, desc_patterns)
        amount_col == find_column(columns, amount_patterns)
        missing == missing_columns(date_col, desc_col, amount_col)
        Col(name) == Least({c \in 1..Len(columns) : columns[c] = name})
        Amount(row) ==
            IF has_debit_credit(columns)
            THEN LET debit == fillna0(to_numeric(row[Col("debit")]))
                     credit == fillna0(to_numeric(row[Col("credit")]))
                 IN Num(credit.v - debit.v)
            ELSE to_numeric(RemoveChars(row[Col(amount_col)], "$,()"))
        Std(row) == [date |-> to_datetime(row[Col(date_col)]),
                     description |-> row[Col(desc_col)],
                     amount |-> Amount(row),
                     source_file |-> filename]
        all_rows == [r \in 1..Len(df.rows) |-> Std(df.rows[r])]
        kept == SelectSeq(all_rows, valid_row)
    IN IF df.columns # <<>> /\ df.numeric_headers = 1..Len(df.columns)
       THEN [raised |-> TRUE, msg |-> "Can only use .str accessor with string values!",
             cols |-> <<>>, df |-> <<>>]
       ELSE IF TypeErrorRaised \in {date_col, desc_col, amount_col}
       THEN [raised |-> TRUE, msg |-> "argument of type 'float' is not iterable",
             cols |-> <<>>, df |-> <<>>]
       ELSE IF missing # <<>>
       THEN [raised |-> TRUE,
             msg |-> "Could not identify required columns: " \o Join(missing, ", "),
             cols |-> <<date_col, desc_col, amount_col>>, df |-> <<>>]
       ELSE [raised |-> FALSE, msg |-> "",
             cols |-> <<date_col, desc_col, amount_col>>, df |-> kept]

SameTriple(a, b) ==
    a.date = b.date /\ a.description = b.description /\ a.amount = b.amount

\* DataFrame.drop_duplicates(subset=['date', 'description', 'amount']):
\* the first row of every triple is kept
drop_duplicates(rows) ==
    LET first(i) == \A j \in 1..(i - 1) : ~SameTriple(rows[j], rows[i])
        RECURSIVE Pick(_, _)
        Pick(lo, hi) ==
            IF lo > hi THEN <<>>
            ELSE IF lo = hi THEN (IF first(lo) THEN <<rows[lo]>> ELSE <<>>)
            ELSE Pick(lo, (lo + hi) \div 2) \o Pick(((lo + hi) \div 2) + 1, hi)
    IN Pick(1, Len(rows))

\* `item` put into `sorted`, a sequence of [key, row] in rising key order,
\* after every item whose key is not greater than its own
InsertByKey(sorted, item) ==
    LET p == Cardinality({j \in 1..Len(sorted) : sorted[j].key <= item.key})
    IN SubSeq(sorted, 1, p) \o <<item>> \o SubSeq(sorted, p + 1, Len(sorted))

RECURSIVE InsertRange(_, _, _, _)
\* items[lo..hi] put into `sorted` one after the other
InsertRange(sorted, items, lo, hi) ==
    IF lo > hi THEN sorted
    ELSE IF lo = hi THEN InsertByKey(sorted, items[lo])
    ELSE LET mid == (lo + hi) \div 2
             left == InsertRange(sorted, items, lo, mid)
         IN \* the test has `left` computed before the second half is begun
            IF Len(left) > 0 THEN InsertRange(left, items, mid + 1, hi) ELSE left

\* the rows of a sequence of [key, row] by rising key, rows of equal key
\* in their original order
StableSort(items) ==
    LET sorted == InsertRange(<<>>, items, 1, Len(items))
    IN [k \in 1..Len(items) |-> sorted[k].row]

\* DataFrame.sort_values('date'): ascending, rows of equal date keep their order
sort_values_date(rows) ==
    StableSort([i \in 1..Len(rows) |-> [key |-> DateKey(rows[i].date), row |-> rows[i]]])

\* as transaction_type_of, with zero counted as a credit
transaction_type_of_zero_credit(x) == IF ~x.nan /\ x.v >= 0 THEN "Credit" ELSE "Debit"

\* the lambda of _clean_and_standardize that derives transaction_type
transaction_type_of(x) == IF ~x.nan /\ x.v > 0 THEN "Credit" ELSE "Debit"

\* FileUploader._clean_and_standardize; the row index after reset_index is
\* the position in the sequence, counted from 0
clean_and_standardize(df) ==
    LET deduped == drop_duplicates(df)
        sorted == sort_values_date(deduped)
        Derive(r) ==
            [date |-> r.date,
             description |-> Upper(Strip(r.description)),
             amount |-> r.amount,
             source_file |-> r.source_file,
             month |-> MonthStr(r.date),
             year |-> r.date.y,
             day_of_week |-> DayNames[Weekday(r.date) + 1],
             is_weekend |-> Weekday(r.date) >= 5,
             transaction_type |-> transaction_type_of(r.amount)]
    IN [i \in 1..Len(sorted) |-> Derive(sorted[i])]

RECURSIVE IntStr(_)
\* Python: str(n) for n >= 0
IntStr(n) == IF n < 10 THEN Char(Digits, n + 1) ELSE IntStr(n \div 10) \o Char(Digits, (n % 10) + 1)

\* Path(name).suffix.lower()
Suffix(name) ==
    LET dots == {i \in 2..Len(name) : Char(name, i) = "."}
    IN IF dots = {} THEN ""
       ELSE Lower(SubSeq(name, CHOOSE i \in dots : \A j \in dots : j <= i, Len(name)))

\* the `except Exception as e` of _parse_file
parse_failure(text) == [raised |-> TRUE, msg |-> "Failed to parse file: " \o text, df |-> <<>>]

\* the end of the try block of _parse_file: the result of
\* _standardize_columns is returned, its exception is wrapped
parse_result(res) == IF res.raised THEN parse_failure(res.msg) ELSE res

\* the file extension _parse_file dispatches on
file_extension(file) == Suffix(file.name)

\* FileUploader._parse_file: decoding is the library's; `decodes` says
\* whether it succeeded
parse_file(file) ==
    IF file_extension(file) \notin {".csv", ".xlsx", ".xls", ".txt"}
    THEN parse_failure("Unsupported file format: " \o file_extension(file))
    ELSE IF ~file.decodes THEN parse_failure("Could not decode file")
    ELSE parse_result(standardize_columns(file, file.name))

\* the body of the loop of process_uploaded_files after _parse_file has
\* returned or raised: `res` is its outcome
record_parsed(acc, file, res) ==
    IF res.raised
    THEN [all_transactions |-> acc.all_transactions,
          processing_status |-> Append(acc.processing_status,
              [mark |-> "error", text |-> file.name \o ": Error - " \o res.msg])]
    ELSE IF res.df # <<>>
    THEN [all_transactions |-> acc.all_transactions \o res.df,
          processing_status |-> Append(acc.processing_status,
              [mark |-> "ok",
               text |-> file.name \o ": " \o IntStr(Len(res.df)) \o " transactions loaded"])]
    ELSE [all_transactions |-> acc.all_transactions,
          processing_status |-> Append(acc.processing_status,
              [mark |-> "warning", text |-> file.name \o ": No valid transactions found"])]

\* one pass of the loop over uploaded_files in process_uploaded_files
process_one_file(acc, file) ==
    IF file.size > max_file_size
    THEN [all_transactions |-> acc.all_transactions,
          processing_status |-> Append(acc.processing_status,
              [mark |-> "error", text |-> file.name \o ": File too large (max 50MB)"])]
    ELSE record_parsed(acc, file, parse_file(file))

RECURSIVE process_files_from_until_too_large(_, _, _)
\* as process_files_from, a file over the size limit ending the loop
process_files_from_until_too_large(files, i, acc) ==
    IF i > Len(files) THEN acc
    ELSE IF files[i].size > max_file_size THEN process_one_file(acc, files[i])
    ELSE process_files_from_until_too_large(files, i + 1, process_one_file(acc, files[i]))

RECURSIVE process_files_from(_, _, _)
\* the loop `for file in uploaded_files` from the file at position i on
process_files_from(files, i, acc) ==
    IF i > Len(files) THEN acc
    ELSE process_files_from(files, i + 1, process_one_file(acc, files[i]))

\* "Combine all transactions": the end of process_uploaded_files, once the
\* loop has left all_transactions and processing_status in `acc`
combine_transactions(acc) ==
    IF acc.all_transactions # <<>>
    THEN [is_none |-> FALSE,
          combined_df |-> clean_and_standardize(acc.all_transactions),
          processing_status |-> acc.processing_status]
    ELSE [is_none |-> TRUE, combined_df |-> <<>>,
          processing_status |-> acc.processing_status]

\* FileUploader.process_uploaded_files with the button pressed: the pair
\* (combined_df, processing_status); is_none says combined_df is None
process_uploaded_files(files) ==
    combine_transactions(process_files_from(files, 1,
        [all_transactions |-> <<>>, processing_status |-> <<>>]))

\* -------------------------------------------------------------------------
\* The single-file application (simple_app.py)
\* -------------------------------------------------------------------------
detect_date_patterns ==
    <<"date", "transaction date", "posted date", "trans date", "posting date",
      "effective date">>

detect_desc_patterns ==
    <<"description", "desc", "memo", "transaction", "details", "payee", "merchant",
      "reference", "transaction details">>

detect_amount_patterns == <<"amount", "transaction amount", "value", "sum", "total">>

debit_patterns == <<"debit", "withdrawal", "outgoing", "expense">>

credit_patterns == <<"credit", "deposit", "incoming", "income">>

\* one pattern loop of detect_columns: for the first pattern that some
\* column name contains once lower-cased, the first such column of the
\* file, under its own name; None when no pattern is contained
first_match(columns, patterns) ==
    LET hits(p) == {c \in 1..Len(columns) : Contains(Lower(columns[c]), patterns[p])}
        live == {p \in 1..Len(patterns) : hits(p) # {}}
    IN IF live = {} THEN None ELSE columns[Least(hits(Least(live)))]

\* simple_app.detect_columns: a header cell that is not text makes
\* col.lower() (df.columns.str when none is text) raise AttributeError
detect_columns(df) ==
    IF df.numeric_headers # {}
    THEN [raised |-> TRUE, date |-> None, description |-> None, amount |-> None,
          debit |-> None, credit |-> None]
    ELSE [raised |-> FALSE,
          date |-> first_match(df.columns, detect_date_patterns),
          description |-> first_match(df.columns, detect_desc_patterns),
          amount |-> first_match(df.columns, detect_amount_patterns),
          debit |-> first_match(df.columns, debit_patterns),
          credit |-> first_match(df.columns, credit_patterns)]

\* the lambda of process_dataframe that derives transaction_type; a NaN
\* compares false both ways
simple_transaction_type(x) ==
    IF ~x.nan /\ x.v > 0 THEN "Income" ELSE IF ~x.nan /\ x.v < 0 THEN "Expense" ELSE "Zero"

\* simple_app.process_dataframe: of each row the columns it adds, date
\* being NaT when no date column is mapped; rows without date or amount
\* are dropped when both columns exist
process_dataframe(df, mapping) ==
    LET Col(name) == Least({c \in 1..Len(df.columns) : df.columns[c] = name})
        Cell(row, name) == RemoveChars(row[Col(name)], "$,()")
        Amount(row) ==
            IF mapping.amount # None THEN to_numeric(Cell(row, mapping.amount))
            ELSE Num(fillna0(to_numeric(Cell(row, mapping.credit))).v
                     - fillna0(to_numeric(Cell(row, mapping.debit))).v)
        has_amount == mapping.amount # None \/ (mapping.debit # None /\ mapping.credit # None)
        Processed(row) ==
            [date |-> IF mapping.date # None THEN to_datetime(row[Col(mapping.date)]) ELSE NaT,
             description |-> IF mapping.description # None
                             THEN Strip(row[Col(mapping.description)]) ELSE "",
             amount |-> IF has_amount THEN Amount(row) ELSE NaN,
             transaction_type |-> IF has_amount THEN simple_transaction_type(Amount(row))
                                  ELSE ""]
        keep(r) == (mapping.date # None /\ has_amount) => (r.date # NaT /\ ~r.amount.nan)
    IN SelectSeq([r \in 1..Len(df.rows) |-> Processed(df.rows[r])], keep)

\* "Update mapping if manual selection made": the three select boxes of
\* the page start at the detected columns; `selected` holds, for each box
\* the user changed, the column chosen
manual_override(mapping, selected) ==
    [k \in DOMAIN mapping |-> IF k \in DOMAIN selected THEN selected[k] ELSE mapping[k]]

\* the condition under which the page offers "Process Data"
can_process(mapping) ==
    /\ mapping.description # None
    /\ mapping.amount # None \/ (mapping.debit # None /\ mapping.credit # None)

\* -------------------------------------------------------------------------
\* Query filter extractor (components/search.py, _extract_query_filters)
\* -------------------------------------------------------------------------
\* A constraint set is a function from the keys it holds to their values;
\* the empty set is the function with the empty domain.
NoFilters == <<>>

\* the character at position i, "" beyond the end
At(s, i) == IF i \in 1..Len(s) THEN Char(s, i) ELSE ""

LiteralAt(s, i, lit) == i + Len(lit) - 1 <= Len(s) /\ SubSeq(s, i, i + Len(lit) - 1) = lit

RECURSIVE SkipSpaces(_, _)
\* the position after the run of whitespace that starts at i
SkipSpaces(s, i) == IF IsSpace(At(s, i)) THEN SkipSpaces(s, i + 1) ELSE i

RECURSIVE DigitsEnd(_, _)
\* the position after the run of digits that starts at i (regex \d+, greedy)
DigitsEnd(s, i) == IF IsDigit(At(s, i)) THEN DigitsEnd(s, i + 1) ELSE i

RECURSIVE CommaGroupsEnd(_, _)
\* regex (?:,\d+)* from position i
CommaGroupsEnd(s, i) ==
    IF At(s, i) = "," /\ IsDigit(At(s, i + 1)) THEN CommaGroupsEnd(s, DigitsEnd(s, i + 1)) ELSE i

\* regex (\d+(?:,\d+)*(?:\.\d{2})?) from a digit at position i: the
\* position after the group
NumberEnd(s, i) ==
    LET e == CommaGroupsEnd(s, DigitsEnd(s, i))
    IN IF At(s, e) = "." /\ IsDigit(At(s, e + 1)) /\ IsDigit(At(s, e + 2)) THEN e + 3 ELSE e

RECURSIVE WordsEnd(_, _, _)
\* the words of a pattern, each followed by \s+, matched from position i:
\* the position after them, 0 when they do not match there
WordsEnd(s, i, words) ==
    IF words = <<>> THEN i
    ELSE IF LiteralAt(s, i, Head(words)) /\ IsSpace(At(s, i + Len(Head(words))))
    THEN WordsEnd(s, SkipSpaces(s, i + Len(Head(words))), Tail(words))
    ELSE 0

\* where the number group starts when the pattern words\s+\$?(number)
\* matches at position i, 0 when it does not
GroupStart(s, i, words) ==
    LET j == WordsEnd(s, i, words)
        k == IF At(s, j) = "$" THEN j + 1 ELSE j
    IN IF j # 0 /\ IsDigit(At(s, k)) THEN k ELSE 0

\* re.search(pattern, s): group(1) of the leftmost match, "" when none
search_group(s, words) ==
    LET at == {i \in 1..Len(s) : GroupStart(s, i, words) # 0}
    IN IF at = {} THEN ""
       ELSE LET k == GroupStart(s, Least(at), words)
            IN SubSeq(s, k, NumberEnd(s, k) - 1)

query_amount_patterns ==
    << [words |-> <<"over">>, filter_type |-> "amount_min"],
       [words |-> <<"above">>, filter_type |-> "amount_min"],
       [words |-> <<"more", "than">>, filter_type |-> "amount_min"],
       [words |-> <<"under">>, filter_type |-> "amount_max"],
       [words |-> <<"below">>, filter_type |-> "amount_max"],
       [words |-> <<"less", "than">>, filter_type |-> "amount_max"] >>

\* as amount_filters, the bound taken from the amount phrase that comes
\* first in the query
amount_filters_first_in_text(query_lower) ==
    LET live == {p \in 1..Len(query_amount_patterns) :
                     search_group(query_lower, query_amount_patterns[p].words) # ""}
        start(p) == Least({i \in 1..Len(query_lower) :
                              GroupStart(query_lower, i, query_amount_patterns[p].words) # 0})
    IN IF live = {} THEN NoFilters
       ELSE LET pat == query_amount_patterns[CHOOSE p \in live : \A o \in live : start(p) <= start(o)]
                amount == to_numeric(RemoveChars(search_group(query_lower, pat.words), ","))
            IN pat.filter_type :> amount.v

\* the loop over amount_patterns: the first pattern that matches sets one
\* bound and ends the loop
amount_filters(query_lower) ==
    LET live == {p \in 1..Len(query_amount_patterns) :
                     search_group(query_lower, query_amount_patterns[p].words) # ""}
    IN IF live = {} THEN NoFilters
       ELSE LET pat == query_amount_patterns[Least(live)]
                amount == to_numeric(RemoveChars(search_group(query_lower, pat.words), ","))
            IN pat.filter_type :> amount.v

\* dt - timedelta(days=1)
PrevDay(dt) ==
    IF dt.d > 1 THEN [dt EXCEPT !.d = dt.d - 1]
    ELSE IF dt.m > 1 THEN [y |-> dt.y, m |-> dt.m - 1, d |-> DaysInMonth(dt.y, dt.m - 1)]
    ELSE [y |-> dt.y - 1, m |-> 12, d |-> 31]

\* dt.replace(day=1)
FirstOfMonth(dt) == [dt EXCEPT !.d = 1]

\* as time_filters, with last_month_end taken one day back from the date read
time_filters_end_yesterday(query_lower, now, later) ==
    IF Contains(query_lower, "last month")
    THEN ("date_start" :> FirstOfMonth(PrevDay(FirstOfMonth(now))))
         @@ ("date_end" :> PrevDay(later))
    ELSE IF Contains(query_lower, "this month")
    THEN ("date_start" :> FirstOfMonth(now)) @@ ("date_end" :> later)
    ELSE IF Contains(query_lower, "this year")
    THEN ("date_start" :> [y |-> now.y, m |-> 1, d |-> 1]) @@ ("date_end" :> later)
    ELSE IF Contains(query_lower, "last year")
    THEN "year" :> (now.y - 1)
    ELSE NoFilters

\* "Extract time filters": the if / elif chain on the date phrases. Each
\* branch that builds a range calls datetime.now() twice, once for
\* date_start and once for date_end: `now` is the date the first call
\* gives and `later` the date the second gives, the same or the next day.
time_filters(query_lower, now, later) ==
    IF Contains(query_lower, "last month")
    THEN ("date_start" :> FirstOfMonth(PrevDay(FirstOfMonth(now))))
         @@ ("date_end" :> PrevDay(FirstOfMonth(later)))
    ELSE IF Contains(query_lower, "this month")
    THEN ("date_start" :> FirstOfMonth(now)) @@ ("date_end" :> later)
    ELSE IF Contains(query_lower, "this year")
    THEN ("date_start" :> [y |-> now.y, m |-> 1, d |-> 1]) @@ ("date_end" :> later)
    ELSE IF Contains(query_lower, "last year")
    THEN "year" :> (now.y - 1)
    ELSE NoFilters

credit_words == <<"income", "deposit", "salary", "credit">>

debit_words == <<"expense", "spending", "purchase", "debit">>

\* Python: any(word in s for word in words)
AnyWordIn(s, words) == \E w \in 1..Len(words) : Contains(s, words[w])

\* as type_filters, the debit keywords tried first
type_filters_debit_first(query_lower) ==
    IF AnyWordIn(query_lower, debit_words) THEN "transaction_type" :> "Debit"
    ELSE IF AnyWordIn(query_lower, credit_words) THEN "transaction_type" :> "Credit"
    ELSE NoFilters

\* "Extract transaction type"
type_filters(query_lower) ==
    IF AnyWordIn(query_lower, credit_words) THEN "transaction_type" :> "Credit"
    ELSE IF AnyWordIn(query_lower, debit_words) THEN "transaction_type" :> "Debit"
    ELSE NoFilters

\* as extract_query_filters, with the three steps chained by elif
extract_query_filters_chained(query, now, later) ==
    LET query_lower == Lower(query)
    IN IF amount_filters(query_lower) # NoFilters THEN amount_filters(query_lower)
       ELSE IF time_filters(query_lower, now, later) # NoFilters
       THEN time_filters(query_lower, now, later)
       ELSE type_filters(query_lower)

\* BankStatementRAG._extract_query_filters
extract_query_filters(query, now, later) ==
    LET query_lower == Lower(query)
    IN amount_filters(query_lower) @@ time_filters(query_lower, now, later)
       @@ type_filters(query_lower)

\* -------------------------------------------------------------------------
\* Embedding indexer (components/search.py, index_transactions)
\* -------------------------------------------------------------------------
\* The vector store keeps one collection, bank_transactions: db.exists says
\* whether it exists and db.docs is its content, a function from the ids
\* it holds to their metadata.
\* self.collection is "none" (None), "live" (the collection of db) or
\* "stale" (a collection that has since been deleted).

batch_size == 100

NoDocs == <<>>

NoCollection == [exists |-> FALSE, docs |-> NoDocs]

\* the metadata dict index_transactions builds for a row
metadata_of(row) ==
    [date |-> DateStr(row.date),
     description |-> row.description,
     amount |-> row.amount,
     month |-> row.month,
     year |-> row.year,
     transaction_type |-> row.transaction_type,
     source_file |-> row.source_file,
     day_of_week |-> row.day_of_week,
     is_weekend |-> row.is_weekend]

\* the ids and metadatas lists: row number idx (from 0) becomes tx_<idx>
index_entries(transactions_df) ==
    [i \in 1..Len(transactions_df) |->
        [id |-> "tx_" \o IntStr(i - 1), metadata |-> metadata_of(transactions_df[i])]]

\* the row number in the id tx_<idx>
IdxOf(id) == DigitsVal(SubSeq(id, 4, Len(id)))

\* len(range(0, n, batch_size))
batch_count(n) == (n + batch_size - 1) \div batch_size

\* entries[i:i+batch_size] of the b-th pass of the loop, as id -> metadata
batch_of(entries, b) ==
    LET last == IF b * batch_size < Len(entries) THEN b * batch_size ELSE Len(entries)
        slice == ((b - 1) * batch_size + 1)..last
    IN [id \in {entries[i].id : i \in slice} |-> entries[IdxOf(id) + 1].metadata]

\* collection.add(batch): ids the collection holds already keep their entry
add_docs(docs, batch) == docs @@ batch

\* as clear_and_create, creating the collection only when it is missing
clear_and_create_keep_existing(client_ok, collection, db, delete_fails, create_fails) ==
    IF client_ok /\ ~create_fails
    THEN [raised |-> FALSE, collection |-> "live",
          db |-> [exists |-> TRUE, docs |-> db.docs]]
    ELSE [raised |-> TRUE, collection |-> collection, db |-> db]

\* "Clear existing data" and "Create fresh collection": delete_collection,
\* whose failure is swallowed, then create_collection, which raises when
\* the store is down or the collection is still there
clear_and_create(client_ok, collection, db, delete_fails, create_fails) ==
    LET deleted == client_ok /\ db.exists /\ ~delete_fails
        db1 == IF deleted THEN NoCollection ELSE db
        collection1 == IF deleted /\ collection = "live" THEN "stale" ELSE collection
    IN IF client_ok /\ ~db1.exists /\ ~create_fails
       THEN [raised |-> FALSE, collection |-> "live", db |-> [exists |-> TRUE, docs |-> NoDocs]]
       ELSE [raised |-> TRUE, collection |-> collection1, db |-> db1]

RECURSIVE add_from_keep_going(_, _, _, _, _)
\* as add_from, with a failed batch skipped and the loop carried on
add_from_keep_going(entries, b, add_fails_at, docs, calls) ==
    IF b > batch_count(Len(entries)) THEN [raised |-> FALSE, docs |-> docs, add_calls |-> calls]
    ELSE IF b = add_fails_at
    THEN add_from_keep_going(entries, b + 1, add_fails_at, docs, calls + 1)
    ELSE add_from_keep_going(entries, b + 1, add_fails_at,
                             add_docs(docs, batch_of(entries, b)), calls + 1)

RECURSIVE add_from(_, _, _, _, _)
\* the loop of collection.add calls from batch b on: the add of batch
\* add_fails_at raises and ends the loop
add_from(entries, b, add_fails_at, docs, calls) ==
    IF b > batch_count(Len(entries)) THEN [raised |-> FALSE, docs |-> docs, add_calls |-> calls]
    ELSE IF b = add_fails_at THEN [raised |-> TRUE, docs |-> docs, add_calls |-> calls + 1]
    ELSE add_from(entries, b + 1, add_fails_at, add_docs(docs, batch_of(entries, b)), calls + 1)

\* as index_transactions, with the collection cleared and created anew
\* before the batch is looked at
index_transactions_clear_first(transactions_df, client_ok, collection, db, fault) ==
    LET fresh == clear_and_create(client_ok, collection, db, fault.delete, fault.create)
        added == add_from(index_entries(transactions_df), 1, fault.add_at,
                          fresh.db.docs, 0)
    IN IF fresh.raised
       THEN [returned |-> FALSE, add_calls |-> 0, raised_in |-> "create",
             transactions_df |-> transactions_df,
             collection |-> fresh.collection, db |-> fresh.db]
       ELSE [returned |-> ~added.raised /\ transactions_df # <<>>,
             add_calls |-> added.add_calls,
             raised_in |-> IF added.raised THEN "add" ELSE "none",
             transactions_df |-> transactions_df,
             collection |-> "live", db |-> [exists |-> TRUE, docs |-> added.docs]]

\* BankStatementRAG.index_transactions: the value returned, the number of
\* collection.add calls made, and the object (its transactions_df and its
\* collection) and the store afterwards
index_transactions(transactions_df, client_ok, collection, db, fault) ==
    IF transactions_df = <<>>
    THEN [returned |-> FALSE, add_calls |-> 0, raised_in |-> "none",
          transactions_df |-> transactions_df,
          collection |-> collection, db |-> db]
    ELSE LET fresh == clear_and_create(client_ok, collection, db, fault.delete, fault.create)
             added == add_from(index_entries(transactions_df), 1, fault.add_at,
                               fresh.db.docs, 0)
         IN IF fresh.raised
            THEN [returned |-> FALSE, add_calls |-> 0, raised_in |-> "create",
                  transactions_df |-> transactions_df,
                  collection |-> fresh.collection, db |-> fresh.db]
            ELSE [returned |-> ~added.raised, add_calls |-> added.add_calls,
                  raised_in |-> IF added.raised THEN "add" ELSE "none",
                  transactions_df |-> transactions_df,
                  collection |-> "live", db |-> [exists |-> TRUE, docs |-> added.docs]]

\* -------------------------------------------------------------------------
\* Hybrid search engine (components/search.py, search)
\* -------------------------------------------------------------------------
\* A where clause is the sequence of its conditions [field, op, value],
\* all of which must hold; None and the empty sequence are the same.
\* Similarity and distance are counted in hundredths.

\* as build_where_clause, with the amount bounds left to the post-filter
build_where_clause_no_amount(filters) ==
    LET keys == DOMAIN filters
    IN (IF "date_start" \in keys
        THEN <<[field |-> "date", op |-> "$gte", value |-> DateStr(filters["date_start"])]>>
        ELSE <<>>)
       \o (IF "date_end" \in keys
           THEN <<[field |-> "date", op |-> "$lte", value |-> DateStr(filters["date_end"])]>>
           ELSE <<>>)
       \o (IF "year" \in keys
           THEN <<[field |-> "year", op |-> "$eq", value |-> filters["year"]]>> ELSE <<>>)
       \o (IF "transaction_type" \in keys
           THEN <<[field |-> "transaction_type", op |-> "$eq",
                   value |-> filters["transaction_type"]]>>
           ELSE <<>>)

\* BankStatementRAG._build_where_clause
build_where_clause(filters) ==
    LET keys == DOMAIN filters
    IN (IF "amount_min" \in keys
        THEN <<[field |-> "amount", op |-> "$gte", value |-> filters["amount_min"]]>>
        ELSE <<>>)
       \o (IF "amount_max" \in keys
           THEN <<[field |-> "amount", op |-> "$lte", value |-> filters["amount_max"]]>>
           ELSE <<>>)
       \o (IF "date_start" \in keys
           THEN <<[field |-> "date", op |-> "$gte", value |-> DateStr(filters["date_start"])]>>
           ELSE <<>>)
       \o (IF "date_end" \in keys
           THEN <<[field |-> "date", op |-> "$lte", value |-> DateStr(filters["date_end"])]>>
           ELSE <<>>)
       \o (IF "year" \in keys
           THEN <<[field |-> "year", op |-> "$eq", value |-> filters["year"]]>> ELSE <<>>)
       \o (IF "transaction_type" \in keys
           THEN <<[field |-> "transaction_type", op |-> "$eq",
                   value |-> filters["transaction_type"]]>>
           ELSE <<>>)

\* the index's test of one condition on the metadata of a document; dates
\* are YYYY-MM-DD strings, whose order is the order of the dates
condition_holds(metadata, cond) ==
    IF cond.field = "amount"
    THEN /\ ~metadata.amount.nan
         /\ IF cond.op = "$gte" THEN metadata.amount.v >= cond.value
            ELSE metadata.amount.v <= cond.value
    ELSE IF cond.field = "date"
    THEN IF cond.op = "$gte"
         THEN DateKey(to_datetime(metadata.date)) >= DateKey(to_datetime(cond.value))
         ELSE DateKey(to_datetime(metadata.date)) <= DateKey(to_datetime(cond.value))
    ELSE IF cond.field = "year" THEN metadata.year = cond.value
    ELSE metadata.transaction_type = cond.value

where_holds(metadata, where) == \A c \in 1..Len(where) : condition_holds(metadata, where[c])

Min(a, b) == IF a < b THEN a ELSE b

\* the row numbers of the documents that satisfy `where`
matching_rows(docs, where) ==
    {IdxOf(id) : id \in {d \in DOMAIN docs : where_holds(docs[d], where)}}

RECURSIVE rows_in_order(_, _, _, _)
\* the row numbers of `matching` within lo..hi, rising when the nearest are
\* the first rows and falling when they are the last
rows_in_order(matching, lo, hi, nearest) ==
    IF lo > hi THEN <<>>
    ELSE IF lo = hi THEN (IF lo \in matching THEN <<lo>> ELSE <<>>)
    ELSE IF nearest = "first"
    THEN rows_in_order(matching, lo, (lo + hi) \div 2, nearest)
         \o rows_in_order(matching, ((lo + hi) \div 2) + 1, hi, nearest)
    ELSE rows_in_order(matching, ((lo + hi) \div 2) + 1, hi, nearest)
         \o rows_in_order(matching, lo, (lo + hi) \div 2, nearest)

\* the matching rows by rising distance; size is the number of documents
ranked_rows(matching, size, nearest) ==
    rows_in_order(matching, 0,
                  IF \A i \in matching : i < size THEN size - 1
                  ELSE CHOOSE i \in matching : \A j \in matching : j <= i,
                  nearest)

\* the first n of the ranked rows as hits: id, metadata and distance
nearest_hits(docs, ranked, n) ==
    [k \in 1..Min(n, Len(ranked)) |->
        [id |-> "tx_" \o IntStr(ranked[k]), metadata |-> docs["tx_" \o IntStr(ranked[k])],
         distance |-> 10 * k]]

\* collection.query(query_texts, n_results, where): the n nearest of the
\* documents that satisfy `where`, by rising distance; the embedding being
\* opaque, the nearest are those of the lowest or of the highest row numbers
collection_query(docs, where, n, nearest) ==
    nearest_hits(docs, ranked_rows(matching_rows(docs, where), Cardinality(DOMAIN docs), nearest), n)

\* as results_to_dataframe, sorted by rising similarity
results_to_dataframe_ascending(hits) ==
    StableSort([h \in 1..Len(hits) |->
        [key |-> 100 - hits[h].distance,
         row |-> [metadata |-> hits[h].metadata,
                  similarity_score |-> 100 - hits[h].distance]]])

\* BankStatementRAG._results_to_dataframe: one row per hit, its metadata
\* and similarity_score = 1 - distance, sorted by falling similarity
results_to_dataframe(hits) ==
    StableSort([h \in 1..Len(hits) |->
        [key |-> 0 - (100 - hits[h].distance),
         row |-> [metadata |-> hits[h].metadata,
                  similarity_score |-> 100 - hits[h].distance]]])

Abs(x) == IF x < 0 THEN 0 - x ELSE x

\* as apply_query_filters, comparing the signed amount
apply_query_filters_signed(df, filters) ==
    LET min_ok(r) == "amount_min" \in DOMAIN filters =>
                         (~r.metadata.amount.nan /\ r.metadata.amount.v >= filters["amount_min"])
        max_ok(r) == "amount_max" \in DOMAIN filters =>
                         (~r.metadata.amount.nan /\ r.metadata.amount.v <= filters["amount_max"])
        keep(r) == min_ok(r) /\ max_ok(r)
    IN SelectSeq(df, keep)

\* BankStatementRAG._apply_query_filters
apply_query_filters(df, filters) ==
    LET min_ok(r) == "amount_min" \in DOMAIN filters =>
                         (~r.metadata.amount.nan
                          /\ Abs(r.metadata.amount.v) >= filters["amount_min"])
        max_ok(r) == "amount_max" \in DOMAIN filters =>
                         (~r.metadata.amount.nan
                          /\ Abs(r.metadata.amount.v) <= filters["amount_max"])
        keep(r) == min_ok(r) /\ max_ok(r)
    IN SelectSeq(df, keep)

\* search returning the empty DataFrame after st.error; `asked` says
\* whether collection.query was called
search_failed(extracted_filters, where_clause, n, asked) ==
    [rows |-> <<>>, error |-> TRUE, queried |-> asked, n_queried |-> n,
     where |-> where_clause, filters |-> extracted_filters]

\* as search_queried, reporting an error when no row is left
search_queried_empty_is_error(extracted_filters, where_clause, n, client_ok, collection, db, query_fails, nearest) ==
    IF ~client_ok \/ collection = "stale" \/ ~db.exists \/ query_fails \/ n <= 0
       \/ apply_query_filters(
              results_to_dataframe(collection_query(db.docs, where_clause, n, nearest)),
              extracted_filters) = <<>>
    THEN search_failed(extracted_filters, where_clause, n, TRUE)
    ELSE [rows |-> apply_query_filters(
                       results_to_dataframe(collection_query(db.docs, where_clause, n, nearest)),
                       extracted_filters),
          error |-> FALSE, queried |-> TRUE, n_queried |-> n,
          where |-> where_clause, filters |-> extracted_filters]

\* search from the call of collection.query on
search_queried(extracted_filters, where_clause, n, client_ok, collection, db, query_fails, nearest) ==
    IF ~client_ok \/ collection = "stale" \/ ~db.exists \/ query_fails \/ n <= 0
    THEN search_failed(extracted_filters, where_clause, n, TRUE)
    ELSE [rows |-> apply_query_filters(
                       results_to_dataframe(collection_query(db.docs, where_clause, n, nearest)),
                       extracted_filters),
          error |-> FALSE, queried |-> TRUE, n_queried |-> n,
          where |-> where_clause, filters |-> extracted_filters]

\* search from "Build ChromaDB query" on
search_filtered(extracted_filters, n, client_ok, collection, db, query_fails, nearest) ==
    search_queried(extracted_filters, build_where_clause(extracted_filters), n, client_ok,
                   collection, db, query_fails, nearest)

\* as search, asking the index for n_results whatever its size
search_uncapped(query, n_results, filters, now, later, client_ok, collection, db, query_fails, nearest) ==
    IF collection = "none" THEN search_failed(NoFilters, <<>>, 0, FALSE)
    ELSE search_filtered(filters @@ extract_query_filters(query, now, later), n_results,
                         client_ok, collection, db, query_fails, nearest)

\* as search, the extracted filters taking precedence over the caller's
search_extracted_first(query, n_results, filters, now, later, client_ok, collection, db, query_fails, nearest) ==
    IF collection = "none" THEN search_failed(NoFilters, <<>>, 0, FALSE)
    ELSE search_filtered(extract_query_filters(query, now, later) @@ filters, Min(n_results, 100),
                         client_ok, collection, db, query_fails, nearest)

\* BankStatementRAG.search: the rows returned, whether st.error was called,
\* and what the index was asked; query_fails is an index-side fault and
\* `nearest` the ranking of the embedding
search(query, n_results, filters, now, later, client_ok, collection, db, query_fails, nearest) ==
    IF collection = "none" THEN search_failed(NoFilters, <<>>, 0, FALSE)
    ELSE search_filtered(filters @@ extract_query_filters(query, now, later), Min(n_results, 100),
                         client_ok, collection, db, query_fails, nearest)

\* -------------------------------------------------------------------------
\* Input files
\* -------------------------------------------------------------------------
MaxRows == 2

\* all sequences of at most n elements of S
SeqUpTo(S, n) == UNION {[1..k -> S] : k \in 0..n}

File(name, columns, rows) ==
    [name |-> name, size |-> 1024, decodes |-> TRUE, columns |-> columns,
     numeric_headers |-> {}, rows |-> rows]

\* a spreadsheet whose header cells at the positions `numeric` hold numbers
Sheet(name, columns, numeric, rows) ==
    [File(name, columns, rows) EXCEPT !.numeric_headers = numeric]

ColsPlain == <<"Date", "Description", "Amount">>

RowsPlain ==
    {<<d, s, a>> : d \in {"2024-01-15", "13/01/2024", "nan"},
                   s \in {"coffee", " Coffee", "  "},
                   a \in {"45.00", "-5.67", "n/a"}}

ColsDebitCreditAmt == <<"Posting Date", "Memo", "Debit Amt", "Credit Amt">>

ColsDebitCredit == <<"Date", "Details", "Debit", "Credit">>

RowsDebitCredit ==
    {<<"2024-01-15", "rent", db, cr>> : db \in {"45.00", "0", "nan"},
                                        cr \in {"100.00", "0", "nan"}}

ColsNoDescription == <<"Date", "Amount", "Balance">>

RowsNoDescription == {<<"2024-01-15", a, "900.00">> : a \in {"45.00", "n/a"}}

ColsTransactionDate == <<"Transaction Date", "Amount">>

RowsTransactionDate == {<<"2024-01-15", "45.00">>}

ColsAmountAndPair == <<"Date", "Description", "Amount", "Debit", "Credit">>

RowsAmountAndPair ==
    {<<"2024-01-15", "rent", a, "45.00", cr>> : a \in {"-45.00", "7.00"}, cr \in {"0", "9.00"}}

ColsNoDate == <<"Memo", "Value">>

ColsNothing == <<"Balance", "Ref">>

RowsTwoCells == {<<"900.00", "17">>}

ColsPayeeSum == <<" DATE ", "Payee", "Sum">>

RowsPayeeSum ==
    {<<"2024-01-16", s, a>> : s \in {"nan", "acme"},
                              a \in {"$1,000.50", "(45.00)", "0", "-0.00"}}

FilesOf(name, columns, rowset) == {File(name, columns, rows) : rows \in SeqUpTo(rowset, MaxRows)}

ColsYearTotals == <<"Date", "Amount", "2023", "2024">>

RowsYearTotals == {<<"2024-01-15", "45.00", "1.00", "2.00">>}

ColsTrailingYear == <<"Date", "Description", "Amount", "2024">>

RowsTrailingYear == {<<"2024-01-15", "rent", "-45.00", "2.00">>}

ColsYearsOnly == <<"2023", "2024">>

SheetsOf(name, columns, numeric, rowset) ==
    {Sheet(name, columns, numeric, rows) : rows \in SeqUpTo(rowset, MaxRows)}

ColsMemoFirst == <<"Value Date", "Memo", "Credit", "Description", "Amount">>

RowsMemoFirst == {<<"2024-01-15", "note", "1.00", "rent", "-45.00">>}

RawFiles ==
    FilesOf("plain.csv", ColsPlain, RowsPlain)
    \cup FilesOf("pair_amt.csv", ColsDebitCreditAmt, RowsDebitCredit)
    \cup FilesOf("pair.csv", ColsDebitCredit, RowsDebitCredit)
    \cup FilesOf("nodesc.csv", ColsNoDescription, RowsNoDescription)
    \cup FilesOf("txdate.csv", ColsTransactionDate, RowsTransactionDate)
    \cup FilesOf("both.csv", ColsAmountAndPair, RowsAmountAndPair)
    \cup FilesOf("nodate.csv", ColsNoDate, RowsTwoCells)
    \cup FilesOf("nothing.csv", ColsNothing, RowsTwoCells)
    \cup FilesOf("payee.xlsx", ColsPayeeSum, RowsPayeeSum)
    \cup FilesOf("memo.csv", ColsMemoFirst, RowsMemoFirst)
    \cup SheetsOf("totals.xlsx", ColsYearTotals, {3, 4}, RowsYearTotals)
    \cup SheetsOf("trailing.xlsx", ColsTrailingYear, {4}, RowsTrailingYear)
    \cup SheetsOf("years.xlsx", ColsYearsOnly, {1, 2}, RowsTwoCells)

\* rows whose dates, where they parse, are in the YYYY-MM-DD layout
RowsIsoPlain ==
    {<<d, "coffee", a>> : d \in {"2024-01-15", "nan"}, a \in {"45.00", "-5.67", "0", "n/a"}}

\* the files given to simple_app
SimpleFiles ==
    FilesOf("plain.csv", ColsPlain, RowsIsoPlain)
    \cup FilesOf("pair.csv", ColsDebitCredit, RowsDebitCredit)
    \cup FilesOf("both.csv", ColsAmountAndPair, RowsAmountAndPair)
    \cup FilesOf("memo.csv", ColsMemoFirst, RowsMemoFirst)
    \cup FilesOf("txdate.csv", ColsTransactionDate, RowsTransactionDate)
    \cup FilesOf("nothing.csv", ColsNothing, RowsTwoCells)
    \cup SheetsOf("trailing.xlsx", ColsTrailingYear, {4}, RowsTrailingYear)
    \cup {[File("broken.xls", ColsPlain, <<>>) EXCEPT !.decodes = FALSE]}

\* what the user can do with the select boxes of the page: leave them, or
\* set one of them to a column of the file
Selections(df) ==
    {<<>>} \cup {k :> df.columns[c] : k \in {"date", "description", "amount"},
                                      c \in 1..Len(df.columns)}

\* simple_app before any upload: column_mapping is {}
NoMapping ==
    [raised |-> FALSE, date |-> None, description |-> None, amount |-> None,
     debit |-> None, credit |-> None]

SimpleIdle ==
    /\ column_mapping = NoMapping
    /\ simple_df = <<>>

NotCalled == [raised |-> FALSE, msg |-> "not called", cols |-> <<>>, df |-> <<>>]

MaxFiles == 2

BigFile == 60 * 1024 * 1024

UploadFiles ==
    { File("plain.csv", ColsPlain,
           << <<"2024-01-15", "coffee", "-5.67">>, <<"13/01/2024", " Coffee", "45.00">> >>),
      File("plain2.csv", ColsPlain,
           << <<"2024-01-15", " Coffee", "-5.67">>, <<"2024-01-15", "coffee", "-5.67">> >>),
      File("payee.xlsx", ColsPayeeSum,
           << <<"2024-01-16", "nan", "0">>, <<"2024-01-16", "acme", "$1,000.50">> >>),
      File("pair.csv", ColsDebitCredit,
           << <<"2024-01-15", "rent", "45.00", "0">>, <<"2024-01-14", "pay", "nan", "100.00">> >>),
      File("pair_amt.TXT", ColsDebitCreditAmt,
           << <<"2024-01-15", "rent", "45.00", "0">> >>),
      File("nodesc.csv", ColsNoDescription, << <<"2024-01-15", "45.00", "900.00">> >>),
      [File("huge.csv", ColsPlain, << <<"2024-01-15", "coffee", "-5.67">> >>)
          EXCEPT !.size = BigFile],
      [File("broken.xls", ColsPlain, <<>>) EXCEPT !.decodes = FALSE],
      File("invalid.csv", ColsPlain,
           << <<"nan", "coffee", "-5.67">>, <<"2024-01-15", "  ", "1.00">>,
              <<"2024-01-15", "tea", "n/a">> >>),
      File("notes.pdf", ColsPlain, << <<"2024-01-15", "coffee", "-5.67">> >>),
      File("empty.csv", ColsPlain, <<>>),
      File("both.csv", ColsAmountAndPair,
           << <<"2024-01-15", "rent", "7.00", "45.00", "0">> >>),
      Sheet("trailing.xlsx", ColsTrailingYear, {4},
            << <<"2024-01-17", "rent", "-45.00", "2.00">> >>) }

UploadChoices == SeqUpTo(UploadFiles, MaxFiles) \ {<<>>}

NotProcessed == [is_none |-> TRUE, combined_df |-> <<>>, processing_status |-> <<>>]

\* -------------------------------------------------------------------------
\* Queries and the clock
\* -------------------------------------------------------------------------
Queries ==
    { "over $100",
      "under $20 expenses this month",
      "Restaurants more  than 1,250.50 LAST MONTH",
      "salary deposits last year",
      "spending above 50 this year",
      "coffee",
      "below $5 credit or debit",
      "discover 7 less than $30 purchases",
      "rent last month",
      "this month vs last month",
      "under $20 or over $100" }

MaxTicks == 2

ClockStart == [y |-> 2024, m |-> 2, d |-> 28]

\* dt + timedelta(days=1)
NextDay(dt) ==
    IF dt.d < DaysInMonth(dt.y, dt.m) THEN [dt EXCEPT !.d = dt.d + 1]
    ELSE IF dt.m < 12 THEN [y |-> dt.y, m |-> dt.m + 1, d |-> 1]
    ELSE [y |-> dt.y + 1, m |-> 1, d |-> 1]

\* 31 December of the year of dt
YearEnd(dt) == [y |-> dt.y, m |-> 12, d |-> 31]

NoCall == [query |-> "", now |-> NaT, later |-> NaT, filters |-> NoFilters]

QueryIdle ==
    /\ today = ClockStart
    /\ clock_ticks = 0
    /\ last_call = NoCall
    /\ prev_call = NoCall

\* -------------------------------------------------------------------------
\* The session of app.py: uploads and searches
\* -------------------------------------------------------------------------
BigRowCount == 2 * batch_size + 1

\* a file of BigRowCount rows, one a day from 2023-01-01 on, 28 a month
BigRows ==
    [i \in 1..BigRowCount |->
        << DateStr([y |-> 2023, m |-> 1 + ((i - 1) \div 28), d |-> 1 + ((i - 1) % 28)]),
           "item " \o IntStr(i),
           IF i % 2 = 0 THEN IntStr(i) \o ".00" ELSE "-" \o IntStr(i) \o ".50" >>]

AmountsFile ==
    File("amounts.csv", ColsPlain,
         << <<"2024-02-01", "rent", "-150.00">>, <<"2024-02-02", "lunch", "-50.00">>,
            <<"2024-02-03", "refund", "200.00">> >>)

PlainFile ==
    File("plain.csv", ColsPlain,
         << <<"2024-01-15", "coffee", "-5.67">>, <<"13/01/2024", " Coffee", "45.00">> >>)

Plain2File ==
    File("plain2.csv", ColsPlain,
         << <<"2024-01-15", " Coffee", "-5.67">>, <<"2024-01-15", "coffee", "-5.67">>,
            <<"2024-02-20", "tea", "0">> >>)

SessionUploads ==
    { <<AmountsFile>>,
      <<PlainFile>>,
      <<PlainFile, Plain2File>>,
      <<File("nodesc.csv", ColsNoDescription, << <<"2024-01-15", "45.00", "900.00">> >>)>>,
      <<Plain2File, AmountsFile>>,
      <<AmountsFile, PlainFile>>,
      <<File("big.csv", ColsPlain, BigRows)>> }

\* what process_uploaded_files returns for the uploads of the session
SessionResults == {process_uploaded_files(files) : files \in SessionUploads}

\* documents left in the store by an earlier run of the application
OldDocs ==
    batch_of(index_entries(clean_and_standardize(
        standardize_columns(File("old.csv", ColsPlain,
            << <<"2022-05-01", "old rent", "-900.00">>, <<"2022-05-02", "old pay", "950.00">>,
               <<"2022-05-03", "old tea", "-3.00">>, <<"2022-05-04", "old gift", "120.00">> >>),
            "old.csv").df)), 1)

\* as has_transactions, with every result taken for a batch
has_transactions_always(result) == result.combined_df = result.combined_df

\* the test of render_upload_page on what the uploader returned
has_transactions(result) ==
    ~result.is_none /\ result.combined_df # <<>>

\* the faults of the store during one call of index_transactions:
\* delete_collection fails, create_collection fails, or the add_at-th
\* collection.add fails (0: none does)
Faults ==
    {f \in [delete : BOOLEAN, create : BOOLEAN, add_at : 0..batch_count(BigRowCount)] :
        f.add_at # 0 => (~f.delete /\ ~f.create)}

NoFault == [delete |-> FALSE, create |-> FALSE, add_at |-> 0]

\* index_out: what the call returned, how many collection.add calls it
\* made, which operation raised ("none", "create" or "add"), which
\* collection.add the store refused (0: none), whether the store held,
\* before the call, a document that is not of its batch, and the number of
\* rows of the batch
NotIndexed ==
    [called |-> FALSE, returned |-> FALSE, add_calls |-> 0, raised_in |-> "none",
     refused_add |-> 0, had_other_docs |-> FALSE, batch_len |-> 0]

SearchQueries == {"over $100", "coffee", "under $60 expenses", "rent this month"}

\* n_results of a call of search: the slider of the page gives 10..100,
\* another caller of the method any integer
ResultCounts == {-1, 0, 2, 20, 150}

\* the `filters` argument of search: None, or a dict of the caller's own
CallerFilters ==
    { NoFilters,
      "amount_min" :> 7000,
      ("transaction_type" :> "Credit") @@ ("year" :> 2024) }

NotSearched ==
    [query |-> "", n_results |-> 0, caller_filters |-> NoFilters, query_fails |-> FALSE,
     now |-> NaT, later |-> NaT, nearest |-> "", rows |-> <<>>, error |-> FALSE, queried |-> FALSE, n_queried |-> 0, where |-> <<>>,
     filters |-> NoFilters]

SessionIdle ==
    /\ session_df = <<>>
    /\ rag_df = <<>>
    /\ client_up = TRUE
    /\ rag_collection = "live"
    /\ database = [exists |-> TRUE, docs |-> NoDocs]
    /\ index_out = NotIndexed
    /\ search_out = NotSearched

\* the value of index_out after a call that returned `out`
index_record(out, transactions_df, db_before, fault) ==
    [called |-> TRUE, returned |-> out.returned, add_calls |-> out.add_calls,
     raised_in |-> out.raised_in,
     batch_len |-> Len(transactions_df),
     refused_add |-> IF out.raised_in # "create"
                        /\ fault.add_at \in 1..batch_count(Len(transactions_df))
                     THEN fault.add_at ELSE 0,
     had_other_docs |->
         LET mine == index_entries(transactions_df)
         IN \E id \in DOMAIN db_before.docs :
                \/ IdxOf(id) >= Len(mine)
                \/ mine[IdxOf(id) + 1].metadata # db_before.docs[id]]

\* the stores BankStatementRAG() can find or leave at the start of a session
StartStores(up) ==
    IF up THEN {[exists |-> TRUE, docs |-> NoDocs], [exists |-> TRUE, docs |-> OldDocs]}
    ELSE {NoCollection, [exists |-> TRUE, docs |-> OldDocs]}

OtherIdle ==
    /\ QueryIdle
    /\ df_in = File("", <<>>, <<>>)
    /\ std_out = NotCalled
    /\ clean_out = <<>>
    /\ uploaded_files = <<>>
    /\ upload_out = NotProcessed
    /\ SimpleIdle

\* -------------------------------------------------------------------------
\* SpecIndex: upload-and-index cycles of one session of app.py
\* -------------------------------------------------------------------------
\* main() on the first run of the session: BankStatementRAG() has opened
\* the store and got or created the collection, or has failed to
InitIndex ==
    /\ session_df = <<>>
    /\ rag_df = <<>>
    /\ client_up \in BOOLEAN
    /\ rag_collection = IF client_up THEN "live" ELSE "none"
    /\ database \in StartStores(client_up)
    /\ index_out = NotIndexed
    /\ search_out = NotSearched
    /\ step = "session"
    /\ OtherIdle

\* app.render_upload_page with the files of one upload processed: a
\* batch with transactions is stored in the session and then indexed,
\* anything else is left aside
RenderUploadPage ==
    \E files \in SessionUploads, fault \in Faults :
        \E result \in {process_uploaded_files(files)} :
            /\ uploaded_files' = files
            /\ upload_out' = result
            /\ IF has_transactions(result)
               THEN \E out \in {index_transactions(result.combined_df, client_up,
                                                    rag_collection, database, fault)} :
                       /\ session_df' = result.combined_df
                       /\ rag_df' = out.transactions_df
                       /\ rag_collection' = out.collection
                       /\ database' = out.db
                       /\ index_out' = index_record(out, result.combined_df, database, fault)
               ELSE UNCHANGED <<session_df, rag_df, rag_collection, database, index_out>>
            /\ UNCHANGED <<client_up, search_out, normalize_vars, query_vars, simple_vars>>

\* a call of index_transactions with an empty DataFrame, as from a caller
\* other than render_upload_page
IndexEmptyBatch ==
    \E fault \in Faults :
        \E out \in {index_transactions(<<>>, client_up, rag_collection, database, fault)} :
            /\ rag_df' = out.transactions_df
            /\ rag_collection' = out.collection
            /\ database' = out.db
            /\ index_out' = index_record(out, <<>>, database, fault)
            /\ UNCHANGED <<session_df, client_up, search_out, normalize_vars, upload_vars, query_vars, simple_vars>>

NextIndex == RenderUploadPage \/ IndexEmptyBatch

SpecIndex == InitIndex /\ [][NextIndex]_vars

\* -------------------------------------------------------------------------
\* SpecSearch: searches of a session that has been through one
\* upload-and-index cycle
\* -------------------------------------------------------------------------
InitSearch ==
    /\ client_up \in BOOLEAN
    /\ \E result \in SessionResults, fault \in Faults, start \in StartStores(client_up) :
           /\ ~result.is_none
           /\ result.combined_df # <<>>
           /\ \E out \in {index_transactions(result.combined_df, client_up,
                                              IF client_up THEN "live" ELSE "none", start,
                                              fault)} :
                 /\ session_df = result.combined_df
                 /\ rag_df = result.combined_df
                 /\ rag_collection = out.collection
                 /\ database = out.db
                 /\ index_out = index_record(out, result.combined_df, start, fault)
    /\ search_out = NotSearched
    /\ step = "search"
    /\ OtherIdle

\* SearchInterface._perform_search: rag_system.search(query, n_results),
\* and the calls other callers make of the method. search changes
\* neither the object nor the store, so the result of a later call from
\* the same state is one of the results of the first.
Search ==
    \E query \in SearchQueries, n_results \in ResultCounts, filters \in CallerFilters,
       query_fails \in BOOLEAN, nearest \in {"first", "last"},
       later \in {today, NextDay(today)} :
        /\ session_df # <<>>
        /\ step = "search"
        /\ \E out \in {search(query, n_results, filters, today, later, client_up,
                               rag_collection, database, query_fails, nearest)} :
              search_out' = [query |-> query, n_results |-> n_results,
                             caller_filters |-> filters, query_fails |-> query_fails,
                             now |-> today, later |-> later, nearest |-> nearest,
                             rows |-> out.rows, error |-> out.error, queried |-> out.queried,
                             n_queried |-> out.n_queried, where |-> out.where,
                             filters |-> out.filters]
        /\ today' = later
        /\ step' = "searched"
        /\ UNCHANGED <<session_df, rag_df, client_up, rag_collection, database, index_out,
                       df_in, std_out, clean_out, upload_vars, clock_ticks, last_call,
                       prev_call, simple_vars>>

NextSearch == Search

SpecSearch == InitSearch /\ [][NextSearch]_vars

\* -------------------------------------------------------------------------
\* SpecQuery: _extract_query_filters called again and again while the
\* calendar moves on
\* -------------------------------------------------------------------------
InitQuery ==
    /\ QueryIdle
    /\ df_in = File("", <<>>, <<>>)
    /\ std_out = NotCalled
    /\ clean_out = <<>>
    /\ step = "query"
    /\ uploaded_files = <<>>
    /\ upload_out = NotProcessed
    /\ SessionIdle
    /\ SimpleIdle

\* one call of _extract_query_filters; midnight may pass between its two
\* readings of the clock
ExtractQueryFilters ==
    \E query \in Queries, later \in {today, NextDay(today)} :
        /\ later # today => clock_ticks < MaxTicks
        /\ last_call' = [query |-> query, now |-> today, later |-> later,
                         filters |-> extract_query_filters(query, today, later)]
        /\ prev_call' = last_call
        /\ today' = later
        /\ clock_ticks' = (IF later # today THEN clock_ticks + 1 ELSE clock_ticks)
        /\ UNCHANGED <<normalize_vars, upload_vars, session_vars, simple_vars>>

\* time passes: to the next day, or on to the last day of the year
AdvanceClock ==
    /\ clock_ticks < MaxTicks
    /\ \E later \in {NextDay(today), YearEnd(today)} :
           /\ later # today
           /\ today' = later
    /\ clock_ticks' = clock_ticks + 1
    /\ UNCHANGED <<last_call, prev_call, normalize_vars, upload_vars, session_vars, simple_vars>>

NextQuery == ExtractQueryFilters \/ AdvanceClock

SpecQuery == InitQuery /\ [][NextQuery]_vars

\* -------------------------------------------------------------------------
\* SpecNormalize: one raw file taken through _standardize_columns and
\* _clean_and_standardize, which is then applied to its own output
\* -------------------------------------------------------------------------
InitNormalize ==
    /\ df_in \in RawFiles
    /\ std_out = NotCalled
    /\ clean_out = <<>>
    /\ step = "file"
    /\ uploaded_files = <<>>
    /\ upload_out = NotProcessed
    /\ QueryIdle
    /\ SessionIdle
    /\ SimpleIdle

StandardizeColumns ==
    /\ step = "file"
    /\ std_out' = standardize_columns(df_in, df_in.name)
    /\ step' = "standardized"
    /\ UNCHANGED <<df_in, clean_out, upload_vars, query_vars, session_vars, simple_vars>>

CleanAndStandardize ==
    /\ step = "standardized"
    /\ ~std_out.raised
    /\ clean_out' = clean_and_standardize(std_out.df)
    /\ step' = "cleaned"
    /\ UNCHANGED <<df_in, std_out, upload_vars, query_vars, session_vars, simple_vars>>

CleanAgain ==
    /\ step = "cleaned"
    /\ clean_out' = clean_and_standardize(clean_out)
    /\ step' = "recleaned"
    /\ UNCHANGED <<df_in, std_out, upload_vars, query_vars, session_vars, simple_vars>>

\* the file handed to detect_columns of simple_app
DetectColumns ==
    /\ step = "standardized"
    /\ column_mapping' = detect_columns(df_in)
    /\ step' = "detected"
    /\ UNCHANGED <<df_in, std_out, clean_out, simple_df, upload_vars, query_vars, session_vars>>

NextNormalize == StandardizeColumns \/ CleanAndStandardize \/ CleanAgain \/ DetectColumns

SpecNormalize == InitNormalize /\ [][NextNormalize]_vars

\* -------------------------------------------------------------------------
\* SpecSimple: one file uploaded on the upload page of simple_app
\* -------------------------------------------------------------------------
InitSimple ==
    /\ df_in \in SimpleFiles
    /\ std_out = NotCalled
    /\ clean_out = <<>>
    /\ step = "simple"
    /\ uploaded_files = <<>>
    /\ upload_out = NotProcessed
    /\ QueryIdle
    /\ SessionIdle
    /\ SimpleIdle

\* simple_app.render_upload_page with a file in the uploader: the file is
\* read, its columns are detected and stored, the user may change a select
\* box and may press "Process Data"; an exception leaves the session as it
\* was
SimpleRenderUploadPage ==
    \E pressed \in BOOLEAN, selected \in Selections(df_in) :
        /\ step = "simple"
        /\ \E detected \in {detect_columns(df_in)} :
              IF ~df_in.decodes \/ detected.raised
              THEN UNCHANGED simple_vars
              ELSE /\ column_mapping' = manual_override(detected, selected)
                   /\ simple_df' =
                          IF can_process(manual_override(detected, selected)) /\ pressed
                          THEN process_dataframe(df_in, manual_override(detected, selected))
                          ELSE simple_df
        /\ step' = "simple_done"
        /\ UNCHANGED <<df_in, std_out, clean_out, upload_vars, query_vars, session_vars>>

NextSimple == SimpleRenderUploadPage

SpecSimple == InitSimple /\ [][NextSimple]_vars

\* -------------------------------------------------------------------------
\* SpecUpload: process_uploaded_files applied to a list of uploaded files
\* -------------------------------------------------------------------------
InitUpload ==
    /\ uploaded_files \in UploadChoices
    /\ upload_out = NotProcessed
    /\ step = "uploaded"
    /\ df_in = File("", <<>>, <<>>)
    /\ std_out = NotCalled
    /\ clean_out = <<>>
    /\ QueryIdle
    /\ SessionIdle
    /\ SimpleIdle

ProcessUploadedFiles ==
    /\ step = "uploaded"
    /\ upload_out' = process_uploaded_files(uploaded_files)
    /\ step' = "processed"
    /\ UNCHANGED <<uploaded_files, df_in, std_out, clean_out, query_vars, session_vars, simple_vars>>

NextUpload == ProcessUploadedFiles

SpecUpload == InitUpload /\ [][NextUpload]_vars

\* -------------------------------------------------------------------------
\* Claims on the schema normalizer
\* -------------------------------------------------------------------------
\* the amount the claimed credit - debit rule gives a row of the
\* Posting Date / Memo / Debit Amt / Credit Amt layout
CreditMinusDebit(row) == Num(fillna0(to_numeric(row[4])).v - fillna0(to_numeric(row[3])).v)

\* C2: a file with the columns Posting Date, Memo, Debit Amt, Credit Amt is
\* standardized without error and every row gets amount = credit - debit,
\* so Debit Amt = 45.00 with Credit Amt = 0 gives -45.00.
C2_DebitAmtCreditAmt ==
    (step = "standardized" /\ df_in.columns = ColsDebitCreditAmt) =>
        /\ ~std_out.raised
        /\ Len(std_out.df) = Len(df_in.rows)
        /\ \A r \in 1..Len(df_in.rows) :
               r <= Len(std_out.df) => std_out.df[r].amount = CreditMinusDebit(df_in.rows[r])

\* C3: every row of the batch process_uploaded_files returns has a date,
\* an amount, a description that is not empty after trimming, and
\* transaction_type Credit exactly when amount > 0 (zero is Debit).
C3_AdmittedRowsWellFormed ==
    (step = "processed" /\ ~upload_out.is_none) =>
        \A i \in 1..Len(upload_out.combined_df) :
            LET r == upload_out.combined_df[i]
            IN /\ r.date # NaT
               /\ ~r.amount.nan
               /\ Strip(r.description) # ""
               /\ r.transaction_type \in {"Credit", "Debit"}
               /\ (r.transaction_type = "Credit") <=> (r.amount.v > 0)

C3_Witness ==
    /\ step = "processed"
    /\ ~upload_out.is_none
    /\ \E i, j, k \in 1..Len(upload_out.combined_df) :
           /\ upload_out.combined_df[i].amount.v = 0
           /\ upload_out.combined_df[i].transaction_type = "Debit"
           /\ upload_out.combined_df[j].amount.v > 0
           /\ upload_out.combined_df[k].amount.v < 0

\* C17: in a file with a single amount column (Date, Payee, Sum) a value
\* in parentheses is read as negative, so "(45.00)" gives -45.00, and
\* currency symbol and thousands separator change nothing, so "$1,000.50"
\* gives 1000.50.
C17_ParenthesesMeanNegative ==
    (step = "standardized" /\ df_in.columns = ColsPayeeSum /\ ~std_out.raised) =>
        /\ Len(std_out.df) = Len(df_in.rows)
        /\ \A r \in 1..Len(df_in.rows) :
               /\ df_in.rows[r][3] = "(45.00)" => std_out.df[r].amount = Num(-4500)
               /\ df_in.rows[r][3] = "$1,000.50" => std_out.df[r].amount = Num(100050)

\* C18: in a file with the columns Date, Description, Amount, Debit and
\* Credit the amount of every admitted row is the parsed value of its
\* Amount cell; credit - debit is not used.
C18_AmountColumnBeforeDebitCredit ==
    (step = "standardized" /\ df_in.columns = ColsAmountAndPair /\ ~std_out.raised) =>
        /\ Len(std_out.df) = Len(df_in.rows)
        /\ \A r \in 1..Len(df_in.rows) :
               std_out.df[r].amount = to_numeric(RemoveChars(df_in.rows[r][3], "$,()"))

\* the row of a date / description / amount layout passes the claimed
\* admission test: date and amount parse, the description cell is neither
\* null nor empty after trimming
ClaimedAdmitted(row) ==
    /\ to_datetime(row[1]) # NaT
    /\ ~to_numeric(RemoveChars(row[3], "$,()")).nan
    /\ row[2] # "nan"
    /\ Strip(row[2]) # ""

\* C19: of a file with the three columns date, description and amount,
\* _standardize_columns keeps exactly the rows whose date parses, whose
\* amount parses and whose description is neither null nor empty after
\* trimming; no row with a null description cell is in its result.
C19_RowDroppedExactlyWhenInvalid ==
    (step = "standardized" /\ df_in.columns \in {ColsPlain, ColsPayeeSum} /\ ~std_out.raised) =>
        /\ Len(std_out.df) =
               Cardinality({r \in 1..Len(df_in.rows) : ClaimedAdmitted(df_in.rows[r])})
        /\ \A k \in 1..Len(std_out.df) : std_out.df[k].description # "nan"

\* the file, taken alone, is within the size limit and parses to at least
\* one valid row
Loads(file) ==
    /\ file.size <= max_file_size
    /\ ~parse_file(file).raised
    /\ parse_file(file).df # <<>>

\* the row of a parsed file is in the batch, with its description cleaned
InBatch(r, batch) ==
    \E j \in 1..Len(batch) :
        /\ batch[j].date = r.date
        /\ batch[j].amount = r.amount
        /\ batch[j].description = Upper(Strip(r.description))

\* C16: process_uploaded_files returns one status per input file, in input
\* order and naming the file, whatever the outcome of the file; the status
\* of a file is the success mark exactly when the file loads, and every row
\* of every file that loads is in the batch returned, whatever happened to
\* the files before it.
C16_OneStatusPerFile ==
    step = "processed" =>
        /\ Len(upload_out.processing_status) = Len(uploaded_files)
        /\ \A i \in 1..Len(uploaded_files) :
               /\ i <= Len(upload_out.processing_status)
               /\ SubSeq(upload_out.processing_status[i].text, 1,
                         Len(uploaded_files[i].name) + 1) = uploaded_files[i].name \o ":"
               /\ (upload_out.processing_status[i].mark = "ok") <=> Loads(uploaded_files[i])
               /\ Loads(uploaded_files[i]) =>
                      /\ ~upload_out.is_none
                      /\ \A k \in 1..Len(parse_file(uploaded_files[i]).df) :
                             InBatch(parse_file(uploaded_files[i]).df[k], upload_out.combined_df)

C16_Witness ==
    /\ step = "processed"
    /\ Len(uploaded_files) = 2
    /\ uploaded_files[1].size > max_file_size
    /\ upload_out.processing_status[1].mark = "error"
    /\ Loads(uploaded_files[2])
    /\ upload_out.processing_status[2].mark = "ok"
    /\ Len(upload_out.combined_df) = 2

\* C4: no two rows of the batch _clean_and_standardize returns have the
\* same (date, description, amount), description being the stored one.
C4_NoDuplicateTriples ==
    step \in {"cleaned", "recleaned"} =>
        \A i, j \in 1..Len(clean_out) : i < j => ~SameTriple(clean_out[i], clean_out[j])

\* C5: _clean_and_standardize applied to its own output returns the same
\* rows: none removed, none added.
C5_CleanIdempotent == [][CleanAgain => clean_out' = clean_out]_vars

\* no column name of the file of df_in contains a description pattern
NoDescriptionColumn ==
    \A c \in 1..Len(df_in.columns) : \A p \in 1..Len(desc_patterns) :
        c \notin df_in.numeric_headers =>
            ~Contains(Strip(Lower(df_in.columns[c])), desc_patterns[p])

\* C6: a file none of whose column names contains a description pattern
\* makes _standardize_columns raise an error whose message names
\* "description", whatever its other columns are (a header cell that
\* holds a number contains no pattern).
C6_MissingDescriptionNamed ==
    (step = "standardized" /\ NoDescriptionColumn) =>
        std_out.raised /\ Contains(std_out.msg, "description")

\* the position of the column the pattern-first rule names: the first
\* column, in file order, whose name contains the earliest pattern that
\* any name contains; 0 when no name contains a pattern
RuleColumn(names, patterns) ==
    LET hits(p) == {c \in 1..Len(names) : names[c] # NotText /\ Contains(names[c], patterns[p])}
        live == {p \in 1..Len(patterns) : hits(p) # {}}
    IN IF live = {} THEN 0 ELSE Least(hits(Least(live)))

\* the name at that position, None at position 0
NameAt(names, pos) == IF pos = 0 THEN None ELSE names[pos]

\* C23: whenever the three calls of _find_column return, each returns the
\* column the pattern-first rule names for the patterns of its field, and
\* no column only when no name contains a pattern of the field; the date,
\* description and amount columns detect_columns returns are the columns
\* the same rule names for its own pattern lists.
C23_PatternOrderDecides ==
    /\ (step # "file" /\ std_out.cols # <<>>) =>
           LET names == lowered_columns(df_in)
           IN std_out.cols = << NameAt(names, RuleColumn(names, date_patterns)),
                                NameAt(names, RuleColumn(names, desc_patterns)),
                                NameAt(names, RuleColumn(names, amount_patterns)) >>
    /\ (step = "detected" /\ ~column_mapping.raised) =>
           LET names == lowered_columns(df_in)
           IN /\ column_mapping.date =
                     NameAt(df_in.columns, RuleColumn(names, detect_date_patterns))
              /\ column_mapping.description =
                     NameAt(df_in.columns, RuleColumn(names, detect_desc_patterns))
              /\ column_mapping.amount =
                     NameAt(df_in.columns, RuleColumn(names, detect_amount_patterns))

C23_Witness ==
    /\ step = "detected"
    /\ df_in.columns = ColsMemoFirst
    /\ Contains(lowered_columns(df_in)[2], desc_patterns[3])
    /\ std_out.cols = <<"value date", "description", "amount">>
    /\ ~column_mapping.raised
    /\ column_mapping.description = "Description"
    /\ column_mapping.amount = "Amount"

\* C27: whenever _standardize_columns resolves the three columns without
\* raising, the date, description and amount columns are three different
\* columns of the file.
C27_ResolvedColumnsDistinct ==
    (step # "file" /\ ~std_out.raised /\ std_out.cols # <<>>) =>
        /\ std_out.cols[1] # std_out.cols[2]
        /\ std_out.cols[1] # std_out.cols[3]
        /\ std_out.cols[2] # std_out.cols[3]

\* C26: every row stored in a session's transaction store, by app.py
\* through FileUploader or by simple_app through process_dataframe, has
\* transaction_type Credit or Debit, Credit exactly when its amount is
\* above zero.
C26_StoredTypesCreditOrDebit ==
    /\ \A i \in 1..Len(session_df) :
           /\ session_df[i].transaction_type \in {"Credit", "Debit"}
           /\ (session_df[i].transaction_type = "Credit") <=> (session_df[i].amount.v > 0)
    /\ \A i \in 1..Len(simple_df) :
           /\ simple_df[i].transaction_type \in {"Credit", "Debit"}
           /\ (simple_df[i].transaction_type = "Credit") <=> (simple_df[i].amount.v > 0)

\* -------------------------------------------------------------------------
\* Claims on the query filter extractor
\* -------------------------------------------------------------------------
HasAmountPhrase(q) ==
    \E p \in 1..Len(query_amount_patterns) : search_group(q, query_amount_patterns[p].words) # ""

DatePhrases == <<"last month", "this month", "this year", "last year">>

HasDatePhrase(q) == AnyWordIn(q, DatePhrases)

HasTypeWord(q) == AnyWordIn(q, credit_words) \/ AnyWordIn(q, debit_words)

SameMonth(a, b) == a.y = b.y /\ a.m = b.m

\* the amount patterns, by position in the list, that match the query
MatchingAmountPatterns(q) ==
    {p \in 1..Len(query_amount_patterns) :
         search_group(q, query_amount_patterns[p].words) # ""}

\* C20: a call of _extract_query_filters never returns both amount_min and
\* amount_max; when amount phrases match, the one bound returned has the
\* key and the number of the first pattern of the list (over, above, more
\* than, under, below, less than) that matches, wherever its phrase stands
\* in the query: "under $20 or over $100" gives amount_min = 100 alone.
C20_OneAmountBoundInListOrder ==
    last_call.query # "" =>
        LET q == Lower(last_call.query)
            keys == DOMAIN last_call.filters \cap {"amount_min", "amount_max"}
        IN /\ Cardinality(keys) <= 1
           /\ MatchingAmountPatterns(q) = {} <=> keys = {}
           /\ MatchingAmountPatterns(q) # {} =>
                  LET pat == query_amount_patterns[Least(MatchingAmountPatterns(q))]
                  IN /\ keys = {pat.filter_type}
                     /\ last_call.filters[pat.filter_type] =
                            to_numeric(RemoveChars(search_group(q, pat.words), ",")).v
           /\ last_call.query = "under $20 or over $100" =>
                  /\ keys = {"amount_min"}
                  /\ last_call.filters["amount_min"] = 10000

C20_Witness ==
    /\ last_call.query = "under $20 or over $100"
    /\ Cardinality(MatchingAmountPatterns(Lower(last_call.query))) = 2
    /\ DOMAIN last_call.filters = {"amount_min"}
    /\ last_call.filters["amount_min"] = 10000

\* C8 as claimed: two calls with the same query string return equal
\* constraint sets whenever they are made.
C8_SameQuerySameFilters ==
    (prev_call.query # "" /\ prev_call.query = last_call.query) =>
        prev_call.filters = last_call.filters

\* the date phrase that decides the time filters of a query, "" when none
GoverningPhrase(q) ==
    IF HasDatePhrase(q)
    THEN DatePhrases[Least({p \in 1..Len(DatePhrases) : Contains(q, DatePhrases[p])})]
    ELSE ""

\* C8 as amended: two calls with the same query string return equal
\* constraint sets when the query holds no date phrase, when both are made
\* on the same calendar day, when "last month" decides and both fall in
\* the same month, or when "last year" decides and both fall in the same
\* year; a call is made on the days, in the months, its readings of the
\* clock give.
C8_SameQuerySameDayFilters ==
    (prev_call.query # "" /\ prev_call.query = last_call.query) =>
        LET phrase == GoverningPhrase(Lower(last_call.query))
            a == prev_call.now
            b == last_call.now
        IN (\/ phrase = ""
            \/ a = b /\ prev_call.later = last_call.later
            \/ /\ phrase = "last month"
               /\ SameMonth(a, b)
               /\ SameMonth(prev_call.later, last_call.later)
            \/ phrase = "last year" /\ a.y = b.y)
           => prev_call.filters = last_call.filters

C8_Witness ==
    /\ prev_call.query = "rent last month"
    /\ last_call.query = "rent last month"
    /\ prev_call.now # last_call.now
    /\ prev_call.now.m = last_call.now.m
    /\ prev_call.filters = last_call.filters

\* C21: the date phrases exclude one another with the priority last
\* month, this month, this year, last year: the result of a call holds
\* date_start and date_end together or neither, never a year with a range;
\* "last year" sets year = current year - 1 and nothing else of the three;
\* every range has date_start <= date_end; and "last month" gives exactly
\* the first and the last day of the calendar month before the call.
C21_DatePhrasesExclusive ==
    last_call.query # "" =>
        LET phrase == GoverningPhrase(Lower(last_call.query))
            f == last_call.filters
            keys == DOMAIN f \cap {"date_start", "date_end", "year"}
        IN /\ phrase = "" => keys = {}
           /\ phrase = "last year" => (keys = {"year"} /\ f["year"] = last_call.now.y - 1)
           /\ phrase \in {"last month", "this month", "this year"} =>
                  /\ keys = {"date_start", "date_end"}
                  /\ DateKey(f["date_start"]) <= DateKey(f["date_end"])
           /\ phrase = "last month" =>
                  /\ f["date_start"].d = 1
                  /\ SameMonth(f["date_start"], f["date_end"])
                  /\ f["date_end"].d = DaysInMonth(f["date_end"].y, f["date_end"].m)
                  /\ NextDay(f["date_end"]) = FirstOfMonth(last_call.now)

\* C22: a query that holds a credit keyword (income, deposit, salary,
\* credit) gets transaction_type = Credit, debit keywords or not; one that
\* holds a debit keyword (expense, spending, purchase, debit) and no credit
\* keyword gets Debit; one that holds neither gets no transaction_type.
C22_CreditKeywordsFirst ==
    last_call.query # "" =>
        LET q == Lower(last_call.query)
            f == last_call.filters
        IN /\ AnyWordIn(q, credit_words) =>
                  ("transaction_type" \in DOMAIN f /\ f["transaction_type"] = "Credit")
           /\ (AnyWordIn(q, debit_words) /\ ~AnyWordIn(q, credit_words)) =>
                  ("transaction_type" \in DOMAIN f /\ f["transaction_type"] = "Debit")
           /\ (~AnyWordIn(q, debit_words) /\ ~AnyWordIn(q, credit_words)) =>
                  "transaction_type" \notin DOMAIN f

C22_Witness ==
    /\ last_call.query = "below $5 credit or debit"
    /\ AnyWordIn(Lower(last_call.query), debit_words)
    /\ AnyWordIn(Lower(last_call.query), credit_words)
    /\ last_call.filters = (("amount_max" :> 500) @@ ("transaction_type" :> "Credit"))

\* -------------------------------------------------------------------------
\* Claims on the indexer
\* -------------------------------------------------------------------------
\* the documents of the batch T: tx_<row number> with the metadata of the row
DocsOf(T) ==
    LET entries == index_entries(T)
    IN [id \in {entries[i].id : i \in 1..Len(entries)} |-> entries[IdxOf(id) + 1].metadata]

\* C9: after a call index_transactions(T) that returned True the index
\* holds one document per row of T, tx_<row number> with the metadata of
\* that row, and nothing of an earlier batch; indexing the same T again
\* with success leaves the same documents.
C9_IndexHoldsExactlyTheBatch ==
    (index_out.called /\ index_out.returned) =>
        /\ rag_df # <<>>
        /\ database.exists
        /\ rag_collection = "live"
        /\ DOMAIN database.docs = {"tx_" \o IntStr(i - 1) : i \in 1..Len(rag_df)}
        /\ database.docs = DocsOf(rag_df)

C9_Witness ==
    /\ index_out.called
    /\ index_out.returned
    /\ index_out.had_other_docs
    /\ index_out.add_calls = batch_count(BigRowCount)
    /\ Cardinality(DOMAIN database.docs) = BigRowCount

\* C10: when create_collection or a collection.add raises, the call makes
\* no further collection.add, returns False, and the batch stored in the
\* session is the batch that was handed to the call.
C10_FailureStopsAndReports ==
    (index_out.called /\ (index_out.raised_in = "create" \/ index_out.refused_add # 0)) =>
        /\ ~index_out.returned
        /\ index_out.add_calls = index_out.refused_add
        /\ index_out.refused_add # 0 =>
               Cardinality(DOMAIN database.docs) = (index_out.refused_add - 1) * batch_size
        /\ session_df = rag_df
        /\ session_df # <<>>

C10_Witness ==
    /\ index_out.called
    /\ ~index_out.returned
    /\ index_out.refused_add = 2
    /\ index_out.add_calls = 2
    /\ Len(session_df) = BigRowCount
    /\ Cardinality(DOMAIN database.docs) = batch_size

\* C28: a call of index_transactions with an empty batch returns False,
\* makes no collection.add, and leaves the collection and the documents of
\* the store as they were, while the object's transactions_df becomes
\* empty.
C28_EmptyBatchLeavesIndex ==
    [][(index_out'.called /\ index_out'.batch_len = 0) =>
          /\ ~index_out'.returned
          /\ index_out'.add_calls = 0
          /\ database' = database
          /\ rag_collection' = rag_collection
          /\ rag_df' = <<>>]_vars

C28_Witness ==
    /\ index_out.called
    /\ index_out.batch_len = 0
    /\ index_out.had_other_docs
    /\ ~index_out.returned
    /\ rag_df = <<>>
    /\ session_df # <<>>
    /\ rag_collection = "live"
    /\ database.docs = DocsOf(session_df)

\* C29: a cycle that yields at least one transaction leaves the session's
\* store equal to the batch of that cycle; a cycle that yields none
\* leaves the store, the collection and the documents of the index as they
\* were. So the store is always the batch of the latest cycle that yielded
\* a transaction.
C29_StoreIsLatestYieldingBatch ==
    [][IF ~upload_out'.is_none /\ upload_out'.combined_df # <<>>
       THEN session_df' = upload_out'.combined_df
       ELSE UNCHANGED <<session_df, rag_collection, database>>]_vars

C29_Witness ==
    /\ uploaded_files # <<>>
    /\ upload_out.is_none
    /\ session_df # <<>>
    /\ index_out.called
    /\ index_out.returned
    /\ index_out.had_other_docs
    /\ database.docs = DocsOf(session_df)

\* -------------------------------------------------------------------------
\* Claims on the search engine
\* -------------------------------------------------------------------------
\* the amounts, in cents, of a sequence of rows or of the documents of the store
AmountsOfRows(rows) == {rows[i].metadata.amount.v : i \in 1..Len(rows)}

AmountsOfDocs(docs) == {docs[id].amount.v : id \in DOMAIN docs}

\* C1: "over $100" asked of an index that holds the amounts -150.00,
\* -50.00 and 200.00, with room for all three in the result, extracts
\* amount_min = 100 and returns the -150.00 and the 200.00 transaction.
C1_OverHundredByAbsoluteValue ==
    (/\ search_out.query = "over $100"
     /\ search_out.caller_filters = NoFilters
     /\ search_out.queried
     /\ ~search_out.error
     /\ search_out.n_queried >= 3
     /\ Cardinality(DOMAIN database.docs) = 3
     /\ AmountsOfDocs(database.docs) = {-15000, -5000, 20000}) =>
        /\ "amount_min" \in DOMAIN search_out.filters
        /\ search_out.filters["amount_min"] = 10000
        /\ AmountsOfRows(search_out.rows) = {-15000, 20000}

\* collection.query raises: the store cannot be reached, the collection
\* the object holds is gone from the store, the index faults, or the
\* number of results asked is not positive
QueryRaises ==
    /\ search_out.queried
    /\ \/ ~client_up
       \/ rag_collection = "stale"
       \/ ~database.exists
       \/ search_out.query_fails
       \/ search_out.n_queried <= 0

\* the hits collection.query gave the search of search_out
HitsOfSearch ==
    collection_query(database.docs, search_out.where, search_out.n_queried, search_out.nearest)

\* C24: the rows a search returns are in non-increasing order of
\* similarity_score, each row carries the metadata of a hit and
\* similarity_score = 1 - distance of that hit, and the rows the amount
\* post-filter leaves keep the order of the hits.
C24_RowsBySimilarity ==
    (step = "searched" /\ search_out.queried /\ ~search_out.error) =>
        /\ \A i, j \in 1..Len(search_out.rows) :
               i < j => search_out.rows[i].similarity_score
                            >= search_out.rows[j].similarity_score
        /\ \A hits \in {HitsOfSearch} :
               \A i \in 1..Len(search_out.rows) :
                   \E h \in 1..Len(hits) :
                       /\ hits[h].metadata = search_out.rows[i].metadata
                       /\ search_out.rows[i].similarity_score = 100 - hits[h].distance

C24_Witness ==
    /\ step = "searched"
    /\ search_out.queried
    /\ ~search_out.error
    /\ Len(search_out.rows) >= 2
    /\ Len(search_out.rows) < Len(HitsOfSearch)
    /\ search_out.rows[1].similarity_score > search_out.rows[2].similarity_score

\* C25: a constraint set with amount_min > amount_max is passed on as it
\* is: the predicate given to the index holds both bounds unchanged, the
\* search returns no row, and it reports an error only when
\* collection.query raised.
C25_ConflictingBoundsPassThrough ==
    (/\ step = "searched"
     /\ search_out.queried
     /\ {"amount_min", "amount_max"} \subseteq DOMAIN search_out.filters) =>
        (search_out.filters["amount_min"] > search_out.filters["amount_max"] =>
            /\ \E c \in 1..Len(search_out.where) :
                   search_out.where[c] = [field |-> "amount", op |-> "$gte",
                                          value |-> search_out.filters["amount_min"]]
            /\ \E c \in 1..Len(search_out.where) :
                   search_out.where[c] = [field |-> "amount", op |-> "$lte",
                                          value |-> search_out.filters["amount_max"]]
            /\ search_out.rows = <<>>
            /\ search_out.error <=> QueryRaises)

C25_Witness ==
    /\ step = "searched"
    /\ search_out.queried
    /\ ~search_out.error
    /\ search_out.query = "under $60 expenses"
    /\ search_out.caller_filters = ("amount_min" :> 7000)
    /\ search_out.filters["amount_min"] = 7000
    /\ search_out.filters["amount_max"] = 6000
    /\ Cardinality(DOMAIN database.docs) = BigRowCount
    /\ search_out.rows = <<>>

\* the documents that satisfy every constraint of `filters`, the amount
\* bounds read on the absolute amount
Qualifying(docs, filters) ==
    {id \in DOMAIN docs :
        /\ where_holds(docs[id], build_where_clause_no_amount(filters))
        /\ "amount_min" \in DOMAIN filters =>
               (~docs[id].amount.nan /\ Abs(docs[id].amount.v) >= filters["amount_min"])
        /\ "amount_max" \in DOMAIN filters =>
               (~docs[id].amount.nan /\ Abs(docs[id].amount.v) <= filters["amount_max"])}

\* C30: a search asked for k results, 1 <= k <= 100, of an index in which
\* at least k documents satisfy every constraint of the effective set, the
\* amount bounds read on the absolute amount, returns exactly k rows.
\* Stated for the searches without a lower amount bound, whose index
\* predicate admits every qualifying document.
C30_CompleteUnderCap ==
    (/\ step = "searched"
     /\ search_out.queried
     /\ ~search_out.error
     /\ search_out.n_results \in 1..100
     /\ "amount_min" \notin DOMAIN search_out.filters
     /\ Cardinality(Qualifying(database.docs, search_out.filters)) >= search_out.n_results) =>
        Len(search_out.rows) = search_out.n_results

\* C11: when a collection.add of index_transactions has raised part-way,
\* no later search is answered from the index unless the index holds every
\* document of the batch: the search reports an error, or the documents of
\* the store are those of the batch of the session.
C11_NoSearchFromPartialIndex ==
    (step = "searched" /\ index_out.called /\ index_out.refused_add # 0) =>
        \/ search_out.error
        \/ database.docs = DocsOf(session_df)

\* C12: search always returns; it reports an error exactly when the
\* object has no collection or the call of collection.query raised, and
\* then returns no row; a query that raised nothing and left no row, the
\* index being empty or every hit being filtered out, reports no error.
C12_ErrorIffNoIndexOrQueryFault ==
    step = "searched" =>
        /\ search_out.error <=> (rag_collection = "none" \/ QueryRaises)
        /\ search_out.error => search_out.rows = <<>>
        /\ rag_collection # "none" => search_out.queried

C12_Witness ==
    /\ step = "searched"
    /\ search_out.query = "under $60 expenses"
    /\ search_out.queried
    /\ ~search_out.error
    /\ search_out.rows = <<>>
    /\ search_out.n_queried = 2
    /\ Cardinality(DOMAIN database.docs) = BigRowCount

\* C13: a search asked for n > 100 results asks the index for exactly 100
\* and returns at most 100 rows; asked for 1 <= n <= 100 it asks the index
\* for exactly n and returns at most n rows.
C13_AtMostHundredResults ==
    (step = "searched" /\ search_out.queried /\ search_out.n_results >= 1) =>
        /\ search_out.n_queried =
               (IF search_out.n_results > 100 THEN 100 ELSE search_out.n_results)
        /\ Len(search_out.rows) <= search_out.n_queried

C13_Witness ==
    /\ step = "searched"
    /\ search_out.n_results = 150
    /\ search_out.queried
    /\ search_out.n_queried = 100
    /\ Len(search_out.rows) = 100
    /\ Cardinality(DOMAIN database.docs) = BigRowCount

\* C14: a search called with n_results <= 0 never asks the index for a
\* zero or negative number of results: it returns before collection.query
\* or asks for at least 1.
C14_NonPositiveCountRejectedOrClamped ==
    (step = "searched" /\ search_out.n_results <= 0) =>
        \/ ~search_out.queried
        \/ search_out.n_queried >= 1

\* C15: the constraint set search works with holds, for every key of the
\* caller's filters, the caller's value, and for every other key the
\* query gives, the extracted value; it holds no other key.
C15_CallerFiltersOverExtracted ==
    (step = "searched" /\ rag_collection # "none") =>
        /\ DOMAIN search_out.filters =
               DOMAIN search_out.caller_filters
                   \cup DOMAIN extract_query_filters(search_out.query, search_out.now, search_out.later)
        /\ \A k \in DOMAIN search_out.caller_filters :
               search_out.filters[k] = search_out.caller_filters[k]
        /\ \A k \in DOMAIN extract_query_filters(search_out.query, search_out.now, search_out.later)
                       \ DOMAIN search_out.caller_filters :
               search_out.filters[k] = extract_query_filters(search_out.query, search_out.now, search_out.later)[k]

C15_Witness ==
    /\ step = "searched"
    /\ search_out.query = "under $60 expenses"
    /\ search_out.caller_filters = (("transaction_type" :> "Credit") @@ ("year" :> 2024))
    /\ search_out.queried
    /\ ~search_out.error
    /\ extract_query_filters(search_out.query, search_out.now, search_out.later)["transaction_type"] = "Debit"
    /\ search_out.filters["transaction_type"] = "Credit"
    /\ search_out.filters["amount_max"] = 6000

====
